---- MODULE Spec2Model ----
(***************************************************************************)
(* Model of the universal search-URL discovery agent                       *)
(* (LaunchPad/universalSearch.py) and of the universal product extractor    *)
(* (Missile/universalProductExtractor.py).                                  *)
(*                                                                          *)
(* Python text is modelled by TLA+ strings (Len, SubSeq and \o act on       *)
(* them).  A Python value is a record [t |-> type tag, v |-> repr string],  *)
(* so that None, 0.0, False and "" stay distinct values that can be         *)
(* compared with one another.                                               *)
(*                                                                          *)
(* Operators named after a Python built-in or library function (Lower,      *)
(* Strip, Replace, Split, urlparse, parse_qs, quote_plus, ...) compute what  *)
(* that function computes on printable ASCII text.                          *)
(***************************************************************************)
EXTENDS Integers, Sequences, FiniteSets, TLC

VARIABLES
    dd_phase,      \* _dedupe_by_url harness: "build" | "ran" | "reran"
    dd_heap,       \* the record objects, indexed by reference
    dd_input,      \* the list passed to _dedupe_by_url (references)
    dd_snapshot,   \* the records of dd_input as they were when the call was made
    dd_out,        \* the list returned by the first call (references)
    dd_out2,       \* the list returned by the call on dd_out (references)
    ex_pc,         \* extract_products: position of the call
    ex_page,       \* what the page at url shows to each strategy
    ex_max_items,  \* the argument max_items
    ex_db,         \* self.supabase: "none" | "ok" | "failing"
    ex_browser,    \* the browser process: "none" | "open" | "quit"
    ex_driver,     \* whether the local variable driver is bound to a driver
    ex_products,   \* the local variable products
    ex_tried,      \* the strategies invoked so far, with the size of what each returned
    ex_saved,      \* the rows inserted into product_data
    ex_result,     \* the dict returned to the caller
    ex_settle,     \* whether a step raised while the page was settled
    di_pc,         \* discover_search_url: position of the call
    di_query,      \* the argument test_query
    di_page,       \* what the site answers to each selector
    di_browser,    \* the browser process: "none" | "open" | "quit"
    di_driver,     \* whether the local variable driver is bound to a driver
    di_family,     \* index of the selector family scanned next
    di_trigger,    \* index of the trigger pattern tried next
    di_queried,    \* the <<family, selector>> queries of the scan, in order
    di_found_at,   \* the <<family, selector>> whose scan returned the input
    di_input,      \* the local variable search_input (NoElement for None)
    di_revealed,   \* whether a click has opened the search box
    di_clicks,     \* the <<pattern, element>> clicks of the trigger fallback, in order
    di_typed,      \* whether the probe term was typed
    di_submitted,  \* how the search was submitted: "no" | "button" | "return"
    di_result,     \* the dict returned to the caller
    fn_name,       \* harness of the validators and normalizers: the function called
    fn_arg,        \* its argument
    fn_out,        \* what it returned
    sc_pc,         \* _progressive_scroll_and_load: position of the call
    sc_attempt,    \* the iterations of the loop begun so far
    sc_last_height,\* the local variable last_height
    sc_log,        \* what each iteration measured, in order
    ms_pc,         \* discover_multiple_sites: position of the calling thread
    ms_sites,      \* the names of sites_dict, in the order of the dict
    ms_max_workers,\* the argument max_workers
    ms_future,     \* the future of each name: its state and what the call gave
    ms_session,    \* the browser session started for each name (0 for none)
    ms_opened,     \* the browser sessions started so far
    ms_results,    \* the dict results
    cp_products,   \* category pipeline: the number of products of each category
    cp_updated,    \* latest_updated of each category: 0 for NULL, else its rank by age
    cp_product_index,\* run_continuous: the local variable product_index
    cp_skipped,    \* why each skip counted by categories_without_nth_product was one
    cp_seen,       \* the categories processed with the current product_index
    cp_parity,     \* the iterations of the loop begun so far, modulo 2
    cp_last,       \* the category the last iteration selected and how it ended
    pp_store,      \* product pipeline: whether the store answers every query ("ok" | "failing")
    pp_rows,       \* the <<product_id, template_id>> pairs with a row in extracted_urls
    pp_extracted,  \* the pairs whose URL was passed to extract_products
    pp_product,    \* the product of the cycle being processed
    pp_template,   \* the template of the product being processed
    pp_last,       \* the pair of the last iteration, what was known of it, how it ended
    pm_running,    \* PipelineManager: self.running
    pm_server,     \* whether self.health_server is bound to an HTTPServer
    pm_thread,     \* where each thread of the manager stands
    pm_stop        \* stop(): "idle" | "shutdown" | "sleep" | "returned"

dd_vars == <<dd_phase, dd_heap, dd_input, dd_snapshot, dd_out, dd_out2>>

ex_vars == <<ex_pc, ex_page, ex_max_items, ex_db, ex_browser, ex_driver, ex_products,
             ex_tried, ex_saved, ex_result, ex_settle>>

di_vars == <<di_pc, di_query, di_page, di_browser, di_driver, di_family, di_trigger, di_queried,
             di_found_at, di_input, di_revealed, di_clicks, di_typed, di_submitted,
             di_result>>

fn_vars == <<fn_name, fn_arg, fn_out>>

sc_vars == <<sc_pc, sc_attempt, sc_last_height, sc_log>>

ms_vars == <<ms_pc, ms_sites, ms_max_workers, ms_future, ms_session, ms_opened, ms_results>>

cp_vars == <<cp_products, cp_updated, cp_product_index, cp_skipped, cp_seen, cp_parity, cp_last>>

pp_vars == <<pp_store, pp_rows, pp_extracted, pp_product, pp_template, pp_last>>

pm_vars == <<pm_running, pm_server, pm_thread, pm_stop>>

\* what the actions of each machine leave alone
dd_others == <<ex_vars, di_vars, fn_vars, sc_vars, ms_vars, cp_vars, pp_vars, pm_vars>>
ex_others == <<dd_vars, di_vars, fn_vars, sc_vars, ms_vars, cp_vars, pp_vars, pm_vars>>
di_others == <<dd_vars, ex_vars, fn_vars, sc_vars, ms_vars, cp_vars, pp_vars, pm_vars>>
fn_others == <<dd_vars, ex_vars, di_vars, sc_vars, ms_vars, cp_vars, pp_vars, pm_vars>>
sc_others == <<dd_vars, ex_vars, di_vars, fn_vars, ms_vars, cp_vars, pp_vars, pm_vars>>
ms_others == <<dd_vars, ex_vars, di_vars, fn_vars, sc_vars, cp_vars, pp_vars, pm_vars>>
cp_others == <<dd_vars, ex_vars, di_vars, fn_vars, sc_vars, ms_vars, pp_vars, pm_vars>>
pp_others == <<dd_vars, ex_vars, di_vars, fn_vars, sc_vars, ms_vars, cp_vars, pm_vars>>
pm_others == <<dd_vars, ex_vars, di_vars, fn_vars, sc_vars, ms_vars, cp_vars, pp_vars>>

vars == <<dd_vars, ex_vars, di_vars, fn_vars, sc_vars, ms_vars, cp_vars, pp_vars, pm_vars>>

-----------------------------------------------------------------------------
(* Bounds *)

MaxProducts == 3

\* max_items ranges over 1..MaxItems
MaxItems == 2

\* document.body.scrollHeight ranges over 0..MaxHeight
MaxHeight == 5

-----------------------------------------------------------------------------
(* Text *)

Char(s, i) == SubSeq(s, i, i)

StartsWith(s, p) == Len(p) <= Len(s) /\ SubSeq(s, 1, Len(p)) = p

EndsWith(s, p) == Len(p) <= Len(s) /\ SubSeq(s, Len(s) - Len(p) + 1, Len(s)) = p

\* Python's  kw in s
Contains(s, kw) == \E i \in 0..(Len(s) - Len(kw)) : SubSeq(s, i + 1, i + Len(kw)) = kw

-----------------------------------------------------------------------------
(* Python values *)

None == [t |-> "none", v |-> ""]
PyStr(s) == [t |-> "str", v |-> s]
PyFloat(s) == [t |-> "float", v |-> s]
PyInt(s) == [t |-> "int", v |-> s]
PyBool(s) == [t |-> "bool", v |-> s]

\* Python truthiness ( if value: ... )
Truthy(x) ==
    /\ x.t # "none"
    /\ ~(x.t = "str" /\ x.v = "")
    /\ ~(x.t = "float" /\ x.v = "0.0")
    /\ ~(x.t = "int" /\ x.v = "0")
    /\ ~(x.t = "bool" /\ x.v = "False")
    /\ ~(x.t = "list" /\ x.v = "[]")

\* a JSON array, by its repr
PyList(s) == [t |-> "list", v |-> s]

\* str(x)
StrOf(x) == IF x.t = "none" THEN "None" ELSE x.v

-----------------------------------------------------------------------------
(* Product records *)

ProductKeys == <<"title", "product_url", "image_url", "price", "currency", "raw_price",
                 "rating", "review_count", "in_stock", "brand", "sku", "description">>


EmptyProduct == [k \in {ProductKeys[i] : i \in 1..Len(ProductKeys)} |-> None]

\* dict.get(key): None for a missing key
Get(d, key) == IF key \in DOMAIN d THEN d[key] ELSE None

-----------------------------------------------------------------------------
(* Text utilities of the extractor *)

UpperLetters == "ABCDEFGHIJKLMNOPQRSTUVWXYZ"
LowerLetters == "abcdefghijklmnopqrstuvwxyz"

\* index of the first occurrence of the character c in s, 0 when absent (str.find + 1)
Find(s, c) ==
    IF \E i \in 1..Len(s) : Char(s, i) = c
    THEN CHOOSE i \in 1..Len(s) : Char(s, i) = c /\ \A j \in 1..(i - 1) : Char(s, j) # c
    ELSE 0

IsDigit(c) == Find("0123456789", c) > 0
IsLetter(c) == Find(UpperLetters, c) > 0 \/ Find(LowerLetters, c) > 0
\* \w of the re module, for the characters the model uses
IsWordChar(c) == IsDigit(c) \/ IsLetter(c) \/ c = "_"
IsSpace(c) == c \in {" ", "\t", "\n", "\r"}

LowerChar(c) == IF Find(UpperLetters, c) > 0 THEN Char(LowerLetters, Find(UpperLetters, c)) ELSE c

\* str.lower()
RECURSIVE Lower(_)
Lower(s) == IF s = "" THEN "" ELSE LowerChar(Head(s)) \o Lower(Tail(s))

\* str.count(c) for a one-character c
Count(s, c) == Cardinality({i \in 1..Len(s) : Char(s, i) = c})

\* str.replace(c, "") for a one-character c
RECURSIVE Remove(_, _)
Remove(s, c) ==
    IF s = "" THEN ""
    ELSE (IF Head(s) = c THEN "" ELSE Head(s)) \o Remove(Tail(s), c)

\* re.sub(r"\s+", " ", text)
RECURSIVE CollapseSpaces(_, _)
CollapseSpaces(s, afterSpace) ==
    IF s = "" THEN ""
    ELSE IF IsSpace(Head(s))
         THEN (IF afterSpace THEN "" ELSE " ") \o CollapseSpaces(Tail(s), TRUE)
         ELSE Head(s) \o CollapseSpaces(Tail(s), FALSE)

\* str.strip()
RECURSIVE Strip(_)
Strip(s) ==
    IF s = "" THEN ""
    ELSE IF IsSpace(Head(s)) THEN Strip(Tail(s))
    ELSE IF IsSpace(Char(s, Len(s))) THEN Strip(SubSeq(s, 1, Len(s) - 1))
    ELSE s

\* _clean_text, on a value that is None or a str
clean_text(text) ==
    IF text = None THEN None
    ELSE LET cleaned == Strip(CollapseSpaces(text.v, FALSE))
         IN  IF cleaned = "" THEN None ELSE PyStr(cleaned)

-----------------------------------------------------------------------------
(* urllib.parse.urlparse, without params: scheme, netloc, path, query, fragment *)

HasScheme(url) ==
    LET i == Find(url, ":")
    IN  /\ i > 1
        /\ IsLetter(Char(url, 1))
        /\ \A j \in 1..(i - 1) :
               IsLetter(Char(url, j)) \/ IsDigit(Char(url, j)) \/ Find("+-.", Char(url, j)) > 0

\* smallest positive member of a set of indices, dflt when none is positive
MinPositive(S, dflt) ==
    IF \E i \in S : i > 0
    THEN CHOOSE i \in S : i > 0 /\ \A j \in S : j > 0 => i <= j
    ELSE dflt

\* the part of s before the first c, and the part after it ("" when c is absent)
Before(s, c) == IF Find(s, c) > 0 THEN SubSeq(s, 1, Find(s, c) - 1) ELSE s
After(s, c) == IF Find(s, c) > 0 THEN SubSeq(s, Find(s, c) + 1, Len(s)) ELSE ""

url_scheme(url) == IF HasScheme(url) THEN Lower(Before(url, ":")) ELSE ""
url_after_scheme(url) == IF HasScheme(url) THEN After(url, ":") ELSE url

\* _splitnetloc: the netloc ends at the first of / ? #
netloc_end(s) ==
    MinPositive({Find(s, "/"), Find(s, "?"), Find(s, "#")}, Len(s) + 1)

url_netloc(rest) ==
    IF StartsWith(rest, "//")
    THEN SubSeq(rest, 3, netloc_end(SubSeq(rest, 3, Len(rest))) + 1)
    ELSE ""

url_after_netloc(rest) ==
    IF StartsWith(rest, "//")
    THEN SubSeq(rest, netloc_end(SubSeq(rest, 3, Len(rest))) + 2, Len(rest))
    ELSE rest

\* the fragment is split off first, then the query
urlparse_rest(scheme, netloc, rest) ==
    [scheme |-> scheme, netloc |-> netloc,
     path |-> Before(Before(rest, "#"), "?"),
     query |-> After(Before(rest, "#"), "?"),
     fragment |-> After(rest, "#")]

urlparse(url) ==
    urlparse_rest(url_scheme(url), url_netloc(url_after_scheme(url)),
                  url_after_netloc(url_after_scheme(url)))

-----------------------------------------------------------------------------
(* Validators *)

link_blacklist_keywords ==
    {"login", "register", "signup", "account", "profile", "help", "faq", "contact",
     "privacy", "terms", "policy", "cart", "wishlist", "checkout", "track", "order",
     "facebook", "instagram", "whatsapp", "twitter", "youtube", "pinterest",
     "linkedin", "support", "mailto:", "tel:", "javascript:", "gift-card", "loyalty"}

product_path_keywords ==
    {"/product", "/products", "/item", "/items", "/p/", "/dp/", "/pd/", "/pdp",
     "/shop/", "/store/", "/catalog", "/listing", "/sku", "/detail", "/details",
     "/gp/", "/gp/product", "/listing/", "/prod", "/itm", "/itm/",
     "collection", "collections", "category", "categories",
     "productId", "sku=", "pid=", "variant=", "model=", "/buy/", "/sale/"}

negative_keywords ==
    {"search", "account", "contact", "login", "register", "wishlist", "cart", "help",
     "support", "faq", "privacy", "terms"}

nav_words ==
    {"home", "about", "contact", "help", "account", "login", "register", "signup",
     "wishlist", "cart", "track", "order", "policy", "privacy", "terms", "faq",
     "support", "customer care", "service", "blog", "news", "store locator"}

\* _is_blacklisted_link, on a str
is_blacklisted_link(href) ==
    IF href = "" THEN TRUE
    ELSE LET h == Lower(href)
         IN  \/ \E prefix \in {"javascript:", "mailto:", "tel:"} : StartsWith(h, prefix)
             \/ \E keyword \in link_blacklist_keywords : Contains(h, keyword)

\* _is_product_like_path, on a str; base_url is not used by the code
product_like_parts(path, combined) ==
    IF path \in {"", "/", "/home", "/index", "/index.html"} THEN FALSE
    ELSE IF \E keyword \in product_path_keywords : Contains(combined, keyword) THEN TRUE
    ELSE IF \E neg \in negative_keywords : Contains(combined, neg) THEN FALSE
    ELSE IF EndsWith(path, ".html") \/ EndsWith(path, ".htm") THEN TRUE
    ELSE IF Count(path, "/") >= 2 /\ Len(path) > 3 THEN TRUE
    ELSE IF Contains(path, "-") /\ Len(Remove(path, "-")) > 6 THEN TRUE
    ELSE FALSE

\* combined = f"{path}?{query}#{fragment}" of the lowered components
product_like_url(parsed) ==
    product_like_parts(Lower(parsed.path),
                       Lower(parsed.path) \o "?" \o Lower(parsed.query) \o "#"
                           \o Lower(parsed.fragment))

is_product_like_path(href) == product_like_url(urlparse(href))

\* re.search(r"\b\+?\d{8,}\b", t): a maximal run of 8 or more digits that neither
\* follows nor precedes a word character
HasLongNumber(t) ==
    \E i \in 1..Len(t) : \E j \in i..Len(t) :
        /\ j - i + 1 >= 8
        /\ \A k \in i..j : IsDigit(Char(t, k))
        /\ (i = 1 \/ ~IsWordChar(Char(t, i - 1)))
        /\ (j = Len(t) \/ ~IsWordChar(Char(t, j + 1)))

\* _looks_like_phone_or_nav, on a str
looks_like_phone_or_nav(text) ==
    IF text = "" THEN FALSE
    ELSE LET t == Lower(text)
         IN  HasLongNumber(t) \/ \E n \in nav_words : Contains(t, n)

\* _is_valid_product
is_valid_product(product) ==
    LET url == Get(product, "product_url")
        title == IF Truthy(Get(product, "title")) THEN clean_text(product["title"]) ELSE None
    IN  IF ~Truthy(url) THEN FALSE
        ELSE IF is_blacklisted_link(url.v) THEN FALSE
        ELSE IF ~is_product_like_path(url.v)
                /\ ~(Truthy(Get(product, "price")) /\ Truthy(title)) THEN FALSE
        ELSE IF Truthy(title) /\ (looks_like_phone_or_nav(title.v) \/ Len(title.v) < 2)
             THEN FALSE
        ELSE IF ~Truthy(title) /\ ~Truthy(Get(product, "price"))
                /\ ~Truthy(Get(product, "raw_price")) THEN FALSE
        ELSE TRUE

-----------------------------------------------------------------------------
(* Normalizers *)

IsNumChar(c) == IsDigit(c) \/ c = "," \/ c = "."

\* re.findall(r"[\d,.]+", txt)[0], "" when there is no match
TokenStart(txt) ==
    CHOOSE k \in 1..Len(txt) :
        IsNumChar(Char(txt, k)) /\ \A m \in 1..(k - 1) : ~IsNumChar(Char(txt, m))

TokenEnd(txt, i) ==
    CHOOSE k \in i..Len(txt) :
        /\ \A m \in i..k : IsNumChar(Char(txt, m))
        /\ (k = Len(txt) \/ ~IsNumChar(Char(txt, k + 1)))

FirstNumericToken(txt) ==
    IF \E i \in 1..Len(txt) : IsNumChar(Char(txt, i))
    THEN SubSeq(txt, TokenStart(txt), TokenEnd(txt, TokenStart(txt)))
    ELSE ""

RECURSIVE StripLeadingZeros(_)
StripLeadingZeros(s) ==
    IF s = "" THEN "0"
    ELSE IF Head(s) = "0" /\ Len(s) > 1 THEN StripLeadingZeros(Tail(s))
    ELSE s

RECURSIVE StripTrailingZeros(_)
StripTrailingZeros(s) ==
    IF s = "" THEN "0"
    ELSE IF Char(s, Len(s)) = "0" /\ Len(s) > 1
         THEN StripTrailingZeros(SubSeq(s, 1, Len(s) - 1))
    ELSE s

\* float(num) for a string of digits and dots: the float by its repr, None when
\* float() raises ValueError
to_float(num) ==
    LET dot == Find(num, ".")
        intPart == IF dot = 0 THEN num ELSE SubSeq(num, 1, dot - 1)
        fracPart == IF dot = 0 THEN "" ELSE SubSeq(num, dot + 1, Len(num))
    IN  IF Count(num, ".") > 1 \/ Len(intPart) + Len(fracPart) = 0 THEN None
        ELSE PyFloat(StripLeadingZeros(intPart) \o "." \o StripTrailingZeros(fracPart))

\* the currency detection of _parse_price
detect_currency(txt) ==
    LET lowered == Lower(txt)
    IN  IF \E sym \in {"₹", "rs", "rs.", "inr"} : Contains(lowered, sym) THEN PyStr("INR")
        ELSE IF Contains(txt, "$") \/ Contains(lowered, "usd") THEN PyStr("USD")
        ELSE IF Contains(txt, "€") \/ Contains(lowered, "eur") THEN PyStr("EUR")
        ELSE IF Contains(txt, "£") \/ Contains(lowered, "gbp") THEN PyStr("GBP")
        ELSE IF Contains(lowered, "cad") THEN PyStr("CAD")
        ELSE IF Contains(lowered, "aud") THEN PyStr("AUD")
        ELSE None

\* _parse_price: <<price, currency>>
parse_price_token(token, currency) ==
    IF token = "" THEN <<None, currency>>
    ELSE <<to_float(Remove(token, ",")), currency>>

parse_price(raw) ==
    IF ~Truthy(raw) THEN <<None, None>>
    ELSE parse_price_token(FirstNumericToken(Strip(raw.v)), detect_currency(Strip(raw.v)))

\* index of the last "/" of a path, 0 when there is none
LastSlash(path) ==
    IF Find(path, "/") = 0 THEN 0
    ELSE CHOOSE i \in 1..Len(path) :
             Char(path, i) = "/" /\ \A j \in (i + 1)..Len(path) : Char(path, j) # "/"

urljoin_parts(origin, directory, href) ==
    IF HasScheme(href) THEN PyStr(href)
    ELSE IF StartsWith(href, "/") THEN PyStr(origin \o href)
    ELSE PyStr(origin \o directory \o href)

urljoin(base, href) ==
    IF StartsWith(href, "//") THEN PyStr(base.scheme \o ":" \o href)
    ELSE urljoin_parts(base.scheme \o "://" \o base.netloc,
                  IF LastSlash(base.path) = 0 THEN "/"
                  ELSE SubSeq(base.path, 1, LastSlash(base.path)),
                  href)

\* _to_absolute (urljoin) for an absolute href, a href that starts with "//" or "/"
\* and a href relative to the directory of the base
to_absolute(base_url, href) ==
    IF href = "" THEN None ELSE urljoin(urlparse(base_url), href)

-----------------------------------------------------------------------------
(* Elements.  An element is given by the tag names on the way to the root,  *)
(* its own first: tags[1] is element.tag_name, tags[2] the parent's, ...     *)

blacklisted_sections == {"header", "nav", "footer", "aside", "form"}

AncestorWalk == 6

\* _is_within_blacklisted_section: the loop  for _ in range(6)  from position i
RECURSIVE blacklisted_walk(_, _, _)
blacklisted_walk(tags, i, remaining) ==
    IF remaining = 0 THEN FALSE
    ELSE IF Lower(tags[i]) \in blacklisted_sections THEN TRUE
    ELSE IF Lower(tags[i]) \in {"body", "html"} THEN FALSE
    \* find_element(By.XPATH, '..') raises at the root: except -> return False
    ELSE IF i = Len(tags) THEN FALSE
    ELSE blacklisted_walk(tags, i + 1, remaining - 1)

is_within_blacklisted_section(tags) == blacklisted_walk(tags, 1, AncestorWalk)

-----------------------------------------------------------------------------
(* _dedupe_by_url.  The records are objects: heap[r] is the dict behind       *)
(* reference r, the argument and the result are lists of references.  st is  *)
(* the state of the loop: the heap, the dict `aggregated` as a sequence of    *)
(* <<url, reference>> pairs, and the list `order`.                            *)

InAggregated(aggregated, url) == \E i \in 1..Len(aggregated) : aggregated[i][1] = url

AggregatedRef(aggregated, url) ==
    aggregated[CHOOSE i \in 1..Len(aggregated) : aggregated[i][1] = url][2]

\* for key, value in p.items(): if value and not existing.get(key): existing[key] = value
dedupe_merge(existing, p) ==
    [key \in (DOMAIN existing) \cup (DOMAIN p \ {"_element"}) |->
        IF key \in DOMAIN p /\ key # "_element"
           /\ Truthy(p[key]) /\ ~Truthy(Get(existing, key))
        THEN p[key]
        ELSE existing[key]]

\* a variant that stores the caller's object instead of a copy
dedupe_establish_alias(st, ref, url) ==
    [heap |-> st.heap,
     aggregated |-> Append(st.aggregated, <<url, ref>>),
     order |-> Append(st.order, url)]

\* a variant that records the newest URL first
dedupe_establish_prepend(st, ref, url) ==
    [heap |-> Append(st.heap, st.heap[ref]),
     aggregated |-> Append(st.aggregated, <<url, Len(st.heap) + 1>>),
     order |-> <<url>> \o st.order]

\* aggregated[url] = dict(p); order.append(url)
dedupe_establish(st, ref, url) ==
    [heap |-> Append(st.heap, st.heap[ref]),
     aggregated |-> Append(st.aggregated, <<url, Len(st.heap) + 1>>),
     order |-> Append(st.order, url)]

\* one iteration of  for p in products
dedupe_iteration(st, ref) ==
    LET p == st.heap[ref]
        url == Get(p, "product_url")
    IN  IF ~Truthy(url) THEN st
        ELSE IF ~InAggregated(st.aggregated, url.v)
        THEN dedupe_establish(st, ref, url.v)
        ELSE LET e == AggregatedRef(st.aggregated, url.v)
             IN  [st EXCEPT !.heap[e] = dedupe_merge(st.heap[e], p)]

RECURSIVE dedupe_loop(_, _, _)
dedupe_loop(st, products, i) ==
    IF i > Len(products) THEN st
    ELSE dedupe_loop(dedupe_iteration(st, products[i]), products, i + 1)

\* returns the heap after the call and the returned list
\* return [aggregated[u] for u in order]
dedupe_return(st) ==
    [heap |-> st.heap,
     out |-> [i \in 1..Len(st.order) |-> AggregatedRef(st.aggregated, st.order[i])]]

dedupe_by_url(heap, products) ==
    dedupe_return(dedupe_loop([heap |-> heap, aggregated |-> <<>>, order |-> <<>>],
                              products, 1))

-----------------------------------------------------------------------------
(* Strategy 1: DOM scan.  A card is given by its tags, by whether examining  *)
(* it raises, and by the fields _extract_fields_from_card reads from it.     *)

\* the loop over card_elements of _extract_from_dom
RECURSIVE dom_loop(_, _, _, _)
dom_loop(cards, i, products, max_items) ==
    IF i > Len(cards) THEN products
    ELSE LET card == cards[i]
         IN  IF is_within_blacklisted_section(card.tags)
             THEN dom_loop(cards, i + 1, products, max_items)
             ELSE IF card.raises THEN dom_loop(cards, i + 1, products, max_items)
             ELSE IF is_valid_product(card.product)
             THEN IF Len(products) + 1 >= max_items THEN Append(products, card.product)
                  ELSE dom_loop(cards, i + 1, Append(products, card.product), max_items)
             ELSE dom_loop(cards, i + 1, products, max_items)

extract_from_dom(cards, max_items) == dom_loop(cards, 1, <<>>, max_items)

-----------------------------------------------------------------------------
(* Strategy 2: JSON-LD.  A JSON object is a record of the values under the   *)
(* keys the code reads; a JSON array is a sequence of objects.               *)

\* _map_ldjson_product
ldjson_record(d, base_url, name, url, raw, parsed) ==
    [EmptyProduct EXCEPT
        !["title"] = clean_text(name),
        !["product_url"] = IF Truthy(url) THEN to_absolute(base_url, url.v) ELSE None,
        !["price"] = parsed[1],
        !["currency"] = IF Truthy(d.priceCurrency) THEN d.priceCurrency ELSE parsed[2],
        !["raw_price"] = raw,
        !["brand"] = clean_text(d.brand)]

\* str(price) if price is not None else None
raw_price_of(price) == IF price # None THEN PyStr(StrOf(price)) ELSE None

map_ldjson_product(d, base_url) ==
    ldjson_record(d, base_url,
                  IF Truthy(d.name) THEN d.name ELSE d.item_name,
                  IF Truthy(d.url) THEN d.url ELSE d.item_url,
                  raw_price_of(d.price), parse_price(raw_price_of(d.price)))

\* t in ["product", "listitem"] or "Product" in str(data.get("@type"))
ldjson_is_product(d, t) ==
    t \in {"product", "listitem"} \/ Contains(StrOf(d.attype), "Product")

\* t = (data.get("@type") or data.get("type") or "").lower(): a list has no lower()
ldjson_type(d) ==
    LET typeValue == IF Truthy(d.attype) THEN d.attype
                     ELSE IF Truthy(d.type) THEN d.type ELSE PyStr("")
    IN  IF typeValue.t # "str" THEN [raises |-> TRUE, t |-> ""]
        ELSE [raises |-> FALSE, t |-> Lower(typeValue.v)]

\* _collect_products_from_ldjson, for an array (list) and for an object (dict);
\* out is the list the calls append to
RECURSIVE collect_ldjson_list(_, _, _, _, _)
RECURSIVE collect_ldjson_dict(_, _, _, _)
RECURSIVE collect_products_from_ldjson(_, _, _, _)

collect_ldjson_list(data, i, base_url, out, max_items) ==
    IF i > Len(data) THEN out
    ELSE collect_ldjson_list(data, i + 1, base_url,
                             collect_ldjson_dict(data[i], base_url, out, max_items), max_items)

\* if t in [...] ...: product = ...; if product and _is_valid_product: out.append
ldjson_append(d, t, product, out) ==
    IF ldjson_is_product(d, t) /\ is_valid_product(product) THEN Append(out, product) ELSE out

collect_ldjson_typed(d, ty, base_url, out, max_items) ==
    IF ty.raises THEN out
    ELSE collect_products_from_ldjson(d.mainEntity, base_url,
             collect_products_from_ldjson(d.itemListElement, base_url,
                 ldjson_append(d, ty.t, map_ldjson_product(d, base_url), out),
                 max_items),
             max_items)

collect_ldjson_dict(d, base_url, out, max_items) ==
    IF Len(out) >= max_items THEN out
    ELSE collect_ldjson_typed(d, ldjson_type(d), base_url, out, max_items)

\* _collect_products_from_ldjson on an array: a parsed script, itemListElement,
\* mainEntity
collect_products_from_ldjson(blob, base_url, out, max_items) ==
    IF Len(out) >= max_items THEN out
    ELSE collect_ldjson_list(blob, 1, base_url, out, max_items)

RECURSIVE jsonld_loop(_, _, _, _, _)
jsonld_loop(scripts, i, base_url, products, max_items) ==
    IF i > Len(scripts) THEN products
    ELSE jsonld_loop(scripts, i + 1, base_url,
                     collect_products_from_ldjson(scripts[i], base_url, products, max_items),
                     max_items)

\* _extract_from_jsonld: products[:max_items]
extract_from_jsonld(scripts, base_url, max_items) ==
    LET products == jsonld_loop(scripts, 1, base_url, <<>>, max_items)
    IN  SubSeq(products, 1, IF Len(products) < max_items THEN Len(products) ELSE max_items)

-----------------------------------------------------------------------------
(* Strategy 3: microdata.  A node is given like a card. *)

RECURSIVE microdata_loop(_, _, _, _)
microdata_loop(nodes, i, products, max_items) ==
    IF i > Len(nodes) THEN products
    ELSE LET node == nodes[i]
         IN  IF is_within_blacklisted_section(node.tags)
             THEN microdata_loop(nodes, i + 1, products, max_items)
             ELSE IF node.raises THEN microdata_loop(nodes, i + 1, products, max_items)
             ELSE IF is_valid_product(node.product)
             THEN IF Len(products) + 1 >= max_items THEN Append(products, node.product)
                  ELSE microdata_loop(nodes, i + 1, Append(products, node.product), max_items)
             ELSE microdata_loop(nodes, i + 1, products, max_items)

extract_from_microdata(nodes, max_items) == microdata_loop(nodes, 1, <<>>, max_items)

-----------------------------------------------------------------------------
(* Strategy 4: inline JSON scripts.  An object is a record of the values the *)
(* key-synonym lookup finds, with one nested array `children` under the key  *)
(* `child_key`; a parsed script is an array of objects or a single object.   *)

GenericDepth == 6

product_key_hints == {"product", "item", "sku", "listing", "result", "entries", "records"}

\* _map_generic_json_product; None when the object has neither title nor URL
generic_record(d, base_url, raw, parsed) ==
    [EmptyProduct EXCEPT
        !["title"] = clean_text(d.title),
        !["product_url"] = IF Truthy(d.url) THEN to_absolute(base_url, d.url.v) ELSE None,
        !["price"] = parsed[1],
        !["currency"] = clean_text(IF Truthy(d.currency) THEN d.currency ELSE parsed[2]),
        !["raw_price"] = raw,
        !["brand"] = clean_text(d.brand)]

\* if not product.get('title') and not product.get('product_url'): return None
generic_or_none(product) ==
    IF ~Truthy(product["title"]) /\ ~Truthy(product["product_url"]) THEN None ELSE product

map_generic_json_product(d, base_url) ==
    generic_or_none(generic_record(d, base_url, raw_price_of(d.price),
                                   parse_price(raw_price_of(d.price))))

RECURSIVE collect_generic_list(_, _, _, _, _, _)
RECURSIVE collect_generic_dict(_, _, _, _, _)

\* _collect_products_from_generic_json on a list, from item i on
collect_generic_list(data, i, base_url, out, max_items, depth) ==
    IF Len(out) >= max_items \/ depth > GenericDepth \/ i > Len(data) THEN out
    ELSE collect_generic_list(data, i + 1, base_url,
             collect_generic_dict(data[i], base_url, out, max_items, depth + 1),
             max_items, depth)

\* a variant that appends every mapped object
generic_append_unchecked(product, out) ==
    IF product # None THEN Append(out, product) ELSE out

\* if product and _is_valid_product(product): out.append(product)
generic_append(product, out) ==
    IF product # None /\ is_valid_product(product) THEN Append(out, product) ELSE out

\* for key, value in data.items(): the nested list under child_key
generic_nested(d, base_url, out, max_items, depth) ==
    IF Len(out) >= max_items THEN out
    ELSE IF d.child_key = "" THEN out
    ELSE IF (\E k \in product_key_hints : Contains(Lower(d.child_key), k)) \/ depth <= 1
    THEN collect_generic_list(d.children, 1, base_url, out, max_items, depth + 1)
    ELSE out

\* _collect_products_from_generic_json on a dict
collect_generic_dict(d, base_url, out, max_items, depth) ==
    IF Len(out) >= max_items \/ depth > GenericDepth THEN out
    ELSE generic_nested(d, base_url, generic_append(map_generic_json_product(d, base_url), out),
                        max_items, depth)

RECURSIVE inline_loop(_, _, _, _, _)
inline_loop(scripts, i, base_url, products, max_items) ==
    IF i > Len(scripts) \/ Len(products) >= max_items THEN products
    ELSE inline_loop(scripts, i + 1, base_url,
                     IF scripts[i].is_list
                     THEN collect_generic_list(scripts[i].items, 1, base_url, products,
                                               max_items, 0)
                     ELSE collect_generic_dict(scripts[i].items[1], base_url, products,
                                               max_items, 0),
                     max_items)

\* _extract_from_inline_data_scripts
extract_from_inline_data_scripts(scripts, base_url, max_items) ==
    inline_loop(scripts, 1, base_url, <<>>, max_items)

-----------------------------------------------------------------------------
(* Strategy 5: global heuristic scan.  A container is given by its tags,    *)
(* by whether its query raises, and by the cards found inside it.            *)

\* _looks_like_product_card
looks_like_product_card(el) == el.has_link /\ (el.has_image \/ el.priceish)

\* the loop over the cards of one container; an exception ends the container
RECURSIVE heuristic_cards(_, _, _, _)
heuristic_cards(cards, i, products, max_items) ==
    IF i > Len(cards) THEN [products |-> products, full |-> FALSE]
    ELSE LET card == cards[i]
         IN  IF ~card.displayed THEN heuristic_cards(cards, i + 1, products, max_items)
             ELSE IF is_within_blacklisted_section(card.tags)
             THEN heuristic_cards(cards, i + 1, products, max_items)
             ELSE IF ~looks_like_product_card(card)
             THEN heuristic_cards(cards, i + 1, products, max_items)
             ELSE IF card.raises THEN [products |-> products, full |-> FALSE]
             ELSE IF is_valid_product(card.product)
             THEN IF Len(products) + 1 >= max_items
                  THEN [products |-> Append(products, card.product), full |-> TRUE]
                  ELSE heuristic_cards(cards, i + 1, Append(products, card.product), max_items)
             ELSE heuristic_cards(cards, i + 1, products, max_items)

RECURSIVE heuristic_loop(_, _, _, _)
heuristic_loop(containers, i, products, max_items) ==
    IF i > Len(containers) THEN products
    ELSE LET cont == containers[i]
         IN  IF ~cont.displayed \/ is_within_blacklisted_section(cont.tags) \/ cont.raises
             THEN heuristic_loop(containers, i + 1, products, max_items)
             ELSE LET r == heuristic_cards(cont.cards, 1, products, max_items)
                  IN  IF r.full THEN r.products
                      ELSE heuristic_loop(containers, i + 1, r.products, max_items)

\* _extract_by_global_heuristics
extract_by_global_heuristics(containers, max_items) ==
    heuristic_loop(containers, 1, <<>>, max_items)

-----------------------------------------------------------------------------
(* Strategy 6: anchors paired with an image. *)

\* _is_potential_product_href
is_potential_product_href(href) ==
    IF ~Truthy(href) THEN FALSE
    ELSE IF is_blacklisted_link(href.v) THEN FALSE
    ELSE is_product_like_path(href.v)

anchor_product(a, base_url) ==
    [EmptyProduct EXCEPT
        !["title"] = clean_text(a.title),
        !["product_url"] = to_absolute(base_url, a.href.v),
        !["image_url"] = IF Truthy(a.image_url) THEN to_absolute(base_url, a.image_url.v)
                         ELSE None]

RECURSIVE links_loop(_, _, _, _, _)
links_loop(anchors, i, base_url, products, max_items) ==
    IF i > Len(anchors) THEN products
    ELSE LET a == anchors[i]
         IN  IF a.raises \/ ~a.displayed \/ is_within_blacklisted_section(a.tags)
                \/ ~is_potential_product_href(a.href) \/ ~a.has_img
             THEN links_loop(anchors, i + 1, base_url, products, max_items)
             ELSE IF is_valid_product(anchor_product(a, base_url))
             THEN IF Len(products) + 1 >= max_items
                  THEN Append(products, anchor_product(a, base_url))
                  ELSE links_loop(anchors, i + 1, base_url,
                                  Append(products, anchor_product(a, base_url)), max_items)
             ELSE links_loop(anchors, i + 1, base_url, products, max_items)

\* _extract_from_links_with_images
extract_from_links_with_images(anchors, base_url, max_items) ==
    links_loop(anchors, 1, base_url, <<>>, max_items)

-----------------------------------------------------------------------------
(* No-results marker *)

no_results_phrases ==
    {"no results", "no results found", "no result found", "0 results", "0 result",
     "no product", "nothing found", "did not find anything", "did not find anythings",
     "we did not find", "we did not find anything", "we did not find anythings",
     "try another search", "try a different search"}

\* _page_indicates_no_results; reading the body may raise: except -> False
page_indicates_no_results(body) ==
    IF body.raises THEN FALSE
    ELSE \E phrase \in no_results_phrases : Contains(Lower(body.text), phrase)

-----------------------------------------------------------------------------
(* Harness for _dedupe_by_url: build a list of records, call the function,   *)
(* call it again on its own result.                                          *)

Url1 == "https://shop.example/product/1"
Url2 == "https://shop.example/product/2"

DedupeUrls == {None, PyStr(Url1), PyStr(Url2)}

\* the other fields of the records the list is built from
DedupeProfiles ==
    { [EmptyProduct EXCEPT !["title"] = PyStr("Red Shoe"), !["price"] = PyFloat("10.0")],
      [EmptyProduct EXCEPT !["brand"] = PyStr("Acme"), !["in_stock"] = PyBool("True"),
                           !["review_count"] = PyInt("5")],
      [EmptyProduct EXCEPT !["title"] = PyStr("Red Shoe"), !["price"] = PyFloat("0.0"),
                           !["in_stock"] = PyBool("False"), !["review_count"] = PyInt("0")],
      [EmptyProduct EXCEPT !["title"] = PyStr("Blue Shoe"), !["price"] = PyFloat("20.0"),
                           !["in_stock"] = PyBool("True"), !["brand"] = PyStr("Zed")] }

DedupePool == { [p EXCEPT !["product_url"] = u] : p \in DedupeProfiles, u \in DedupeUrls }

DdInit ==
    /\ dd_phase = "build"
    /\ dd_heap = <<>>
    /\ dd_input = <<>>
    /\ dd_snapshot = <<>>
    /\ dd_out = <<>>
    /\ dd_out2 = <<>>

DdAppend ==
    /\ dd_phase = "build"
    /\ Len(dd_input) < MaxProducts
    /\ \E p \in DedupePool :
          /\ dd_heap' = Append(dd_heap, p)
          /\ dd_input' = Append(dd_input, Len(dd_heap) + 1)
    /\ UNCHANGED <<dd_phase, dd_snapshot, dd_out, dd_out2>>
    /\ UNCHANGED dd_others

DdCall ==
    /\ dd_phase = "build"
    /\ LET r == dedupe_by_url(dd_heap, dd_input)
       IN  /\ dd_heap' = r.heap
           /\ dd_out' = r.out
    /\ dd_snapshot' = [i \in 1..Len(dd_input) |-> dd_heap[dd_input[i]]]
    /\ dd_phase' = "ran"
    /\ UNCHANGED <<dd_input, dd_out2>>
    /\ UNCHANGED dd_others

DdCallAgain ==
    /\ dd_phase = "ran"
    /\ LET r == dedupe_by_url(dd_heap, dd_out)
       IN  /\ dd_heap' = r.heap
           /\ dd_out2' = r.out
    /\ dd_phase' = "reran"
    /\ UNCHANGED <<dd_input, dd_snapshot, dd_out>>
    /\ UNCHANGED dd_others

\* no call of the harness is under way
DdIdle ==
    /\ dd_phase = "off"
    /\ dd_heap = <<>>
    /\ dd_input = <<>>
    /\ dd_snapshot = <<>>
    /\ dd_out = <<>>
    /\ dd_out2 = <<>>

\* the records behind a list of references
Records(refs) == [i \in 1..Len(refs) |-> dd_heap[refs[i]]]

\* index in the argument list of the first record carrying this product_url
FirstIndexOfUrl(url) ==
    CHOOSE i \in 1..Len(dd_snapshot) :
        /\ dd_snapshot[i]["product_url"] = url
        /\ \A j \in 1..(i - 1) : dd_snapshot[j]["product_url"] # url

\* C5: in _dedupe_by_url a later duplicate never changes a non-null field (0, 0.0,
\* False and "" included) of the record the first occurrence established: every
\* returned record agrees with the first occurrence of its URL on each field that
\* is not None there.
C5_MergeKeepsNonNullFields ==
    dd_phase = "ran" =>
        \A o \in 1..Len(dd_out) :
            LET rec == dd_heap[dd_out[o]]
                first == dd_snapshot[FirstIndexOfUrl(rec["product_url"])]
            IN  \A key \in DOMAIN EmptyProduct : first[key] # None => rec[key] = first[key]

\* C6: _dedupe_by_url is idempotent: the call on its own result returns the same
\* records with the same field values in the same order.
C6_DedupeIdempotent ==
    dd_phase = "reran" => Records(dd_out2) = Records(dd_out)

\* a three-record list with two distinct URLs, one of them twice, deduplicated twice
C6_Witness ==
    /\ dd_phase = "reran"
    /\ Len(dd_input) = 3
    /\ Len(dd_out) = 2
    /\ Len(dd_out2) = 2

\* C7: the result of _dedupe_by_url holds each distinct product_url of the argument
\* exactly once, in the order of first occurrence; records without product_url are
\* dropped; the records of the argument are not mutated.
C7_DedupeOutput ==
    dd_phase # "build" =>
        LET out == Records(dd_out)
        IN  /\ \A o \in 1..Len(out) : Truthy(out[o]["product_url"])
            /\ \A o \in 1..Len(out) :
                  \E i \in 1..Len(dd_snapshot) :
                      dd_snapshot[i]["product_url"] = out[o]["product_url"]
            /\ \A i \in 1..Len(dd_snapshot) :
                  Truthy(dd_snapshot[i]["product_url"]) =>
                      Cardinality({o \in 1..Len(out) :
                          out[o]["product_url"] = dd_snapshot[i]["product_url"]}) = 1
            /\ \A o1, o2 \in 1..Len(out) :
                  o1 < o2 => FirstIndexOfUrl(out[o1]["product_url"])
                               < FirstIndexOfUrl(out[o2]["product_url"])
            /\ \A i \in 1..Len(dd_input) : dd_heap[dd_input[i]] = dd_snapshot[i]

\* Url2, Url1, Url2 in this order: the result is Url2 then Url1, and the duplicate
\* filled a field of the Url2 record
C7_Witness ==
    /\ dd_phase = "ran"
    /\ Len(dd_input) = 3
    /\ Len(dd_out) = 2
    /\ dd_snapshot[1]["product_url"] = PyStr(Url2)
    /\ dd_snapshot[2]["product_url"] = PyStr(Url1)
    /\ dd_heap[dd_out[1]]["product_url"] = PyStr(Url2)
    /\ dd_heap[dd_out[1]] # dd_snapshot[1]

-----------------------------------------------------------------------------
(* extract_products: the pages *)

PageUrl == "https://shop.example/search?q=shoe"

PlainTags == <<"div", "ul", "main", "body", "html">>
NavTags == <<"li", "ul", "nav", "body", "html">>

ProductA ==
    [EmptyProduct EXCEPT !["title"] = PyStr("Red Shoe"), !["product_url"] = PyStr(Url1),
                         !["price"] = PyFloat("10.0"), !["raw_price"] = PyStr("$10"),
                         !["currency"] = PyStr("USD")]
\* the same URL as ProductA, found with other fields
ProductB ==
    [EmptyProduct EXCEPT !["product_url"] = PyStr(Url1), !["raw_price"] = PyStr("$12"),
                         !["brand"] = PyStr("Acme"), !["in_stock"] = PyBool("True")]
ProductC ==
    [EmptyProduct EXCEPT !["title"] = PyStr("Blue Shoe"), !["product_url"] = PyStr(Url2)]
\* a navigation link
ProductNav ==
    [EmptyProduct EXCEPT !["title"] = PyStr("Home"), !["product_url"] = PyStr(Url1)]
ProductNoUrl ==
    [EmptyProduct EXCEPT !["title"] = PyStr("Red Shoe"), !["price"] = PyFloat("10.0")]

Card(tags, raises, product) ==
    [tags |-> tags, raises |-> raises, product |-> product, displayed |-> TRUE,
     has_link |-> TRUE, has_image |-> TRUE, priceish |-> FALSE]

DomInputs ==
    { <<Card(PlainTags, FALSE, ProductA)>>,
      <<Card(PlainTags, FALSE, ProductA), Card(PlainTags, FALSE, ProductB),
        Card(PlainTags, FALSE, ProductC)>>,
      <<Card(PlainTags, FALSE, ProductNav), Card(PlainTags, FALSE, ProductNoUrl)>>,
      <<Card(NavTags, FALSE, ProductA)>>,
      <<Card(PlainTags, TRUE, ProductA), Card(PlainTags, FALSE, ProductC)>> }

LdObject == [attype |-> None, type |-> None, name |-> None, url |-> None,
             item_name |-> None, item_url |-> None, price |-> None,
             priceCurrency |-> None, brand |-> None,
             itemListElement |-> <<>>, mainEntity |-> <<>>]

LdProduct(attype, url) ==
    [LdObject EXCEPT !.attype = attype, !.name = PyStr("Red Shoe"), !.url = url,
                     !.price = PyStr("10.00"), !.priceCurrency = PyStr("USD")]

LdItemList ==
    [LdObject EXCEPT !.attype = PyStr("ItemList"),
        !.itemListElement =
            << [LdObject EXCEPT !.attype = PyStr("ListItem"), !.item_name = PyStr("Red Shoe"),
                                !.item_url = PyStr("/product/1")],
               [LdObject EXCEPT !.attype = PyStr("ListItem"), !.item_name = PyStr("Blue Shoe"),
                                !.item_url = PyStr("/product/2")] >>]

\* each input: the parsed ld+json scripts of the page, one array of objects per script
LdInputs ==
    { << <<LdProduct(PyStr("Product"), PyStr("/product/1"))>> >>,
      << <<LdProduct(PyList("['Product']"), PyStr("/product/1"))>> >>,
      << <<LdProduct(PyStr("Product"), None)>> >>,
      << <<LdItemList>> >> }

MicrodataInputs ==
    { <<Card(PlainTags, FALSE, ProductA)>>,
      <<Card(PlainTags, FALSE, ProductB), Card(PlainTags, FALSE, ProductA)>> }

GenericObject == [title |-> None, url |-> None, price |-> None, currency |-> None,
                  brand |-> None, child_key |-> "", children |-> <<>>]

GenericA == [GenericObject EXCEPT !.title = PyStr("Red Shoe"), !.url = PyStr("/product/1"),
                                  !.price = PyStr("10")]
GenericC == [GenericObject EXCEPT !.title = PyStr("Blue Shoe"), !.url = PyStr("/product/2")]
\* a navigation entry of a menu blob
GenericNav == [GenericObject EXCEPT !.title = PyStr("Home"), !.url = PyStr("/product/1")]

InlineInputs ==
    { << [is_list |-> TRUE, items |-> <<GenericNav, GenericA, GenericC>>] >>,
      << [is_list |-> FALSE,
          items |-> << [GenericObject EXCEPT !.child_key = "searchResults",
                                             !.children = <<GenericA, GenericA>>] >>] >> }

Container(tags, raises, cards) ==
    [tags |-> tags, raises |-> raises, displayed |-> TRUE, cards |-> cards]

\* nested containers show the same card twice
ContainerInputs ==
    { << Container(<<"main", "body", "html">>, FALSE,
                   <<Card(PlainTags, FALSE, ProductA), Card(PlainTags, FALSE, ProductC)>>),
         Container(<<"div", "main", "body", "html">>, FALSE,
                   <<Card(PlainTags, FALSE, ProductB)>>) >>,
      \* a container whose first card has gone stale
      << Container(<<"main", "body", "html">>, FALSE,
                   <<Card(PlainTags, TRUE, ProductA), Card(PlainTags, FALSE, ProductC)>>) >> }

Anchor(tags, href, title) ==
    [tags |-> tags, raises |-> FALSE, displayed |-> TRUE, href |-> href, has_img |-> TRUE,
     title |-> title, image_url |-> PyStr("/img/1.png")]

AnchorInputs ==
    { << Anchor(<<"a", "div", "body", "html">>, PyStr(Url1), PyStr("Red Shoe")),
         Anchor(<<"a", "nav", "body", "html">>, PyStr(Url2), PyStr("Blue Shoe")),
         Anchor(<<"a", "div", "body", "html">>, PyStr(Url1), PyStr("Red Shoe")) >> }

BodyInputs ==
    { [raises |-> FALSE, text |-> "Sorry, No results found for shoe"],
      [raises |-> FALSE, text |-> "Welcome to the shop"],
      [raises |-> TRUE, text |-> ""] }

Page(dom, ld, micro, inline, containers, anchors, body) ==
    [dom |-> dom, ld |-> ld, microdata |-> micro, inline |-> inline,
     containers |-> containers, anchors |-> anchors, body |-> body]

EmptyPage == Page(<<>>, <<>>, <<>>, <<>>, <<>>, <<>>, [raises |-> FALSE, text |-> ""])

\* the input of strategy k on a page
StrategyInput(page, k) ==
    CASE k = 1 -> page.dom
      [] k = 2 -> page.ld
      [] k = 3 -> page.microdata
      [] k = 4 -> page.inline
      [] k = 5 -> page.containers
      [] k = 6 -> page.anchors

StrategyInputs(k) ==
    CASE k = 1 -> DomInputs
      [] k = 2 -> LdInputs
      [] k = 3 -> MicrodataInputs
      [] k = 4 -> InlineInputs
      [] k = 5 -> ContainerInputs
      [] k = 6 -> AnchorInputs

WithInput(page, k, input) ==
    CASE k = 1 -> [page EXCEPT !.dom = input]
      [] k = 2 -> [page EXCEPT !.ld = input]
      [] k = 3 -> [page EXCEPT !.microdata = input]
      [] k = 4 -> [page EXCEPT !.inline = input]
      [] k = 5 -> [page EXCEPT !.containers = input]
      [] k = 6 -> [page EXCEPT !.anchors = input]

\* the pages: product data for at most two of the strategies, any body text
PagePool ==
    LET one == { WithInput(EmptyPage, k, input) : k \in {1}, input \in StrategyInputs(1) }
               \cup { WithInput(EmptyPage, k, input) : k \in {2}, input \in StrategyInputs(2) }
               \cup { WithInput(EmptyPage, k, input) : k \in {3}, input \in StrategyInputs(3) }
               \cup { WithInput(EmptyPage, k, input) : k \in {4}, input \in StrategyInputs(4) }
               \cup { WithInput(EmptyPage, k, input) : k \in {5}, input \in StrategyInputs(5) }
               \cup { WithInput(EmptyPage, k, input) : k \in {6}, input \in StrategyInputs(6) }
        two == UNION { UNION { { WithInput(pg, k, input) : input \in StrategyInputs(k) }
                               : k \in { j \in 2..6 : StrategyInput(pg, j) = <<>> } }
                       : pg \in one }
        shown == {EmptyPage} \cup one \cup two
    IN  { [pg EXCEPT !.body = body] : pg \in shown, body \in BodyInputs }

-----------------------------------------------------------------------------
(* extract_products *)

NoResult == [keys |-> {}, success |-> FALSE, error |-> "", products |-> <<>>,
             num_products |-> 0, saved_to_db |-> 0]

\* return {"success": False, "page_url": url, "error": str(e)}
ErrorResult(e) == [NoResult EXCEPT !.keys = {"success", "page_url", "error"}, !.error = e]

\* an exception that is passed over: the call goes on with its next step
after_exception_swallowed(pc) ==
    IF pc = "navigate" THEN "wait_body"
    ELSE IF pc = "wait_body" THEN "settle"
    ELSE "finally"

\* where an exception raised at position pc of the try block takes the call: to
\* the except clause, which returns, and so to the finally clause
after_exception(pc) == "finally"

ExInit ==
    /\ ex_pc = "start"
    /\ ex_page \in PagePool
    /\ ex_max_items \in 1..MaxItems
    /\ ex_db \in {"none", "ok", "failing"}
    /\ ex_browser = "none"
    /\ ex_driver = FALSE
    /\ ex_products = <<>>
    /\ ex_tried = <<>>
    /\ ex_saved = <<>>
    /\ ex_result = NoResult
    /\ ex_settle = FALSE

\* no call of extract_products is under way
ExIdle ==
    /\ ex_pc = "idle"
    /\ ex_page = EmptyPage
    /\ ex_max_items = 1
    /\ ex_db = "none"
    /\ ex_browser = "none"
    /\ ex_driver = FALSE
    /\ ex_products = <<>>
    /\ ex_tried = <<>>
    /\ ex_saved = <<>>
    /\ ex_result = NoResult
    /\ ex_settle = FALSE

\* driver = self._setup_driver() returns a driver
ExSetup ==
    /\ ex_pc = "start"
    /\ ex_browser' = "open"
    /\ ex_driver' = TRUE
    /\ ex_pc' = "navigate"
    /\ UNCHANGED <<ex_page, ex_max_items, ex_db, ex_products, ex_tried, ex_saved, ex_result>>
    /\ UNCHANGED <<ex_settle, ex_others>>

\* _setup_driver raises: webdriver.Chrome(...) fails and leaves no browser, or
\* driver.set_page_load_timeout(30) fails on the browser that was started; either
\* way nothing is assigned to driver
ExSetupRaises ==
    /\ ex_pc = "start"
    /\ \E started \in BOOLEAN :
          ex_browser' = IF started THEN "open" ELSE "none"
    /\ ex_result' = ErrorResult("setup")
    /\ ex_pc' = after_exception(ex_pc)
    /\ UNCHANGED <<ex_page, ex_max_items, ex_db, ex_driver, ex_products, ex_tried, ex_saved>>
    /\ UNCHANGED <<ex_settle, ex_others>>

\* driver.get(url)
ExNavigate ==
    /\ ex_pc = "navigate"
    /\ ex_pc' = "wait_body"
    /\ UNCHANGED <<ex_page, ex_max_items, ex_db, ex_browser, ex_driver, ex_products,
                   ex_tried, ex_saved, ex_result>>
    /\ UNCHANGED <<ex_settle, ex_others>>

ExNavigateRaises ==
    /\ ex_pc = "navigate"
    /\ ex_result' = ErrorResult("navigation")
    /\ ex_pc' = after_exception(ex_pc)
    /\ UNCHANGED <<ex_page, ex_max_items, ex_db, ex_browser, ex_driver, ex_products,
                   ex_tried, ex_saved>>
    /\ UNCHANGED <<ex_settle, ex_others>>

\* WebDriverWait(driver, wait_seconds).until(presence of body)
ExWaitBody ==
    /\ ex_pc = "wait_body"
    /\ ex_pc' = "settle"
    /\ UNCHANGED <<ex_page, ex_max_items, ex_db, ex_browser, ex_driver, ex_products,
                   ex_tried, ex_saved, ex_result>>
    /\ UNCHANGED <<ex_settle, ex_others>>

ExWaitBodyRaises ==
    /\ ex_pc = "wait_body"
    /\ ex_result' = ErrorResult("timeout")
    /\ ex_pc' = after_exception(ex_pc)
    /\ UNCHANGED <<ex_page, ex_max_items, ex_db, ex_browser, ex_driver, ex_products,
                   ex_tried, ex_saved>>
    /\ UNCHANGED <<ex_settle, ex_others>>

\* the driver calls of the steps that settle the page: the popup scan and its
\* clicks, window.scrollTo, the load-more scan and its clicks, the measurement of
\* document.body.scrollHeight, the scan for a product card selector
SettleSteps == {"popups", "scroll", "load_more", "height", "wait_selector"}

\* a variant in which an exception of a settling step reaches the except clause
after_settle_unguarded(failed) == IF failed = "none" THEN "strategy" ELSE "finally"

\* where the call stands once the page was settled: each of the three helpers
\* catches what its driver calls raise and returns, so the DOM scan is next
after_settle(failed) == "strategy"

\* _dismiss_known_popups, _progressive_scroll_and_load, _wait_for_any_selector,
\* with or without a step that raises
ExSettle ==
    /\ ex_pc = "settle"
    /\ \E failed \in {"none"} \cup SettleSteps :
           /\ ex_settle' = (failed # "none")
           /\ ex_pc' = after_settle(failed)
           /\ ex_result' = IF ex_pc' = "finally" THEN ErrorResult(failed) ELSE ex_result
    /\ UNCHANGED <<ex_page, ex_max_items, ex_db, ex_browser, ex_driver, ex_products,
                   ex_tried, ex_saved>>
    /\ UNCHANGED ex_others

\* the strategies in the order extract_products calls them
strategy_chain == <<"dom", "jsonld", "microdata", "inline", "heuristics", "links">>

\* what a strategy returns on the page
StrategyResult(page, name, max_items) ==
    CASE name = "dom" -> extract_from_dom(page.dom, max_items)
      [] name = "jsonld" -> extract_from_jsonld(page.ld, PageUrl, max_items)
      [] name = "microdata" -> extract_from_microdata(page.microdata, max_items)
      [] name = "inline" -> extract_from_inline_data_scripts(page.inline, PageUrl, max_items)
      [] name = "heuristics" -> extract_by_global_heuristics(page.containers, max_items)
      [] name = "links" -> extract_from_links_with_images(page.anchors, PageUrl, max_items)

\* the strategy the chain calls next
next_strategy == strategy_chain[Len(ex_tried) + 1]

\* a variant of the chain that goes on to the next strategy whatever was found
chain_continues_always(products) == TRUE

\* if not products: / if len(products) == 0:
chain_continues(products) == Len(products) = 0

\* the next strategy of the chain is invoked and returns
ExStrategy ==
    /\ ex_pc = "strategy"
    /\ \E found \in {StrategyResult(ex_page, next_strategy, ex_max_items)} :
           /\ ex_products' = found
           /\ ex_tried' = Append(ex_tried, [name |-> next_strategy, n |-> Len(found),
                                            raised |-> FALSE])
           /\ ex_pc' = IF Len(ex_tried) + 1 < Len(strategy_chain) /\ chain_continues(found)
                       THEN "strategy"
                       ELSE "no_results"
    /\ UNCHANGED <<ex_page, ex_max_items, ex_db, ex_browser, ex_driver, ex_saved, ex_result>>
    /\ UNCHANGED <<ex_settle, ex_others>>

\* a driver call of the next strategy that no try block covers raises:
\* find_elements of the permissive guess (DOM scan without cards), of the JSON-LD,
\* inline-script, global and anchor scans
ExStrategyRaises ==
    /\ ex_pc = "strategy"
    /\ \/ next_strategy \in {"jsonld", "inline", "heuristics", "links"}
       \/ next_strategy = "dom" /\ ex_page.dom = <<>>
    /\ ex_tried' = Append(ex_tried, [name |-> next_strategy, n |-> 0, raised |-> TRUE])
    /\ ex_result' = ErrorResult("strategy")
    /\ ex_pc' = "finally"
    /\ UNCHANGED <<ex_page, ex_max_items, ex_db, ex_browser, ex_driver, ex_products, ex_saved>>
    /\ UNCHANGED <<ex_settle, ex_others>>

\* a variant that reports the empty page as a failure
no_results_return_error == ErrorResult("no results")

\* return {"success": True, "page_url": url, "platform": ..., "num_products": 0,
\*         "products": []}
no_results_return ==
    [NoResult EXCEPT !.keys = {"success", "page_url", "platform", "num_products", "products"},
                     !.success = TRUE]

\* if not products and self._page_indicates_no_results(driver): return {...}
ExNoResults ==
    /\ ex_pc = "no_results"
    /\ IF Len(ex_products) = 0 /\ page_indicates_no_results(ex_page.body)
       THEN /\ ex_result' = no_results_return
            /\ ex_pc' = "finally"
       ELSE /\ ex_pc' = "dedupe"
            /\ UNCHANGED ex_result
    /\ UNCHANGED <<ex_page, ex_max_items, ex_db, ex_browser, ex_driver, ex_products,
                   ex_tried, ex_saved>>
    /\ UNCHANGED <<ex_settle, ex_others>>

\* products = self._dedupe_by_url(products); products = products[:max_items]
truncate(deduped, max_items) ==
    IF Len(deduped) > max_items THEN SubSeq(deduped, 1, max_items) ELSE deduped

\* the records behind the references a call of _dedupe_by_url returned
deduped_records(r) == [i \in 1..Len(r.out) |-> r.heap[r.out[i]]]

\* a variant that cuts the list without merging the records of one URL
deduped_products_cut_only(products, max_items) == truncate(products, max_items)

deduped_products(products, max_items) ==
    truncate(deduped_records(dedupe_by_url(products, [i \in 1..Len(products) |-> i])),
             max_items)

\* the rows _save_products_to_db inserts: none without a client, none when the
\* insert raises, no row for a product without title or URL
saved_rows(products, db) ==
    IF db # "ok" THEN <<>>
    ELSE SelectSeq(products, LAMBDA p : Truthy(p["title"]) /\ Truthy(p["product_url"]))

\* dedupe, truncate, save, return the result
ExDedupeSave ==
    /\ ex_pc = "dedupe"
    /\ \E products \in {deduped_products(ex_products, ex_max_items)} :
       \E rows \in {saved_rows(products, ex_db)} :
           /\ ex_products' = products
           /\ ex_saved' = rows
           /\ ex_result' = [NoResult EXCEPT
                               !.keys = {"success", "page_url", "platform", "num_products",
                                         "products", "saved_to_db"},
                               !.success = TRUE,
                               !.products = products,
                               !.num_products = Len(products),
                               !.saved_to_db = Len(rows)]
    /\ ex_pc' = "finally"
    /\ UNCHANGED <<ex_page, ex_max_items, ex_db, ex_browser, ex_driver, ex_tried>>
    /\ UNCHANGED <<ex_settle, ex_others>>

\* finally: if driver: driver.quit()
ExFinally ==
    /\ ex_pc = "finally"
    /\ ex_browser' = IF ex_driver THEN "quit" ELSE ex_browser
    /\ ex_pc' = "returned"
    /\ UNCHANGED <<ex_page, ex_max_items, ex_db, ex_driver, ex_products, ex_tried, ex_saved,
                   ex_result>>
    /\ UNCHANGED <<ex_settle, ex_others>>

ExNext ==
    \/ ExSetup
    \/ ExSetupRaises
    \/ ExNavigate
    \/ ExNavigateRaises
    \/ ExWaitBody
    \/ ExWaitBodyRaises
    \/ ExSettle
    \/ ExStrategy
    \/ ExStrategyRaises
    \/ ExNoResults
    \/ ExDedupeSave
    \/ ExFinally

-----------------------------------------------------------------------------
(* discover_search_url.  The selector lists of the agent, in the order of    *)
(* the source.                                                               *)

\* comprehensive_selectors['by_name_attribute']
by_name_attribute ==
    << "input[name=\"q\"]", "input[name=\"query\"]", "input[name=\"search\"]",
      "input[name=\"keyword\"]", "input[name=\"keywords\"]", "input[name=\"s\"]",
      "input[name=\"search_query\"]", "input[name=\"searchTerm\"]",
      "input[name=\"searchQuery\"]", "input[name=\"searchBox\"]",
      "input[name=\"search-field\"]", "input[name=\"search_field\"]",
      "input[name=\"searchInput\"]", "input[name=\"searchVal\"]",
      "input[name=\"searchValue\"]", "input[name=\"searchProduct\"]",
      "input[name=\"product_search\"]", "input[name=\"productSearch\"]",
      "input[name=\"field-keywords\"]", "input[name=\"k\"]", "input[name=\"find\"]",
      "input[name=\"filter\"]", "input[name=\"searchstring\"]",
      "input[name=\"search_string\"]", "input[name=\"search-query\"]",
      "input[name=\"search-term\"]", "input[name=\"term\"]", "input[name=\"terms\"]",
      "input[name=\"siteSearch\"]", "input[name=\"site-search\"]",
      "input[name=\"site_search\"]" >>

\* comprehensive_selectors['by_id_attribute']
by_id_attribute ==
    << "input#search", "input#searchbox", "input#search-box", "input#search_box",
      "input#searchBar", "input#search-bar", "input#search_bar", "input#searchInput",
      "input#search-input", "input#search_input", "input#searchField", "input#search-field",
      "input#search_field", "input#query", "input#q", "input#s", "input#search_query",
      "input#searchQuery", "input#keyword", "input#keywords", "input#site-search",
      "input#site_search", "input#siteSearch", "input#inputValEnter",
      "input#twotabsearchtextbox", "input#gh-ac", "input#searchVal", "input#search-product",
      "input#product-search", "input#productSearch", "input#global-search",
      "input#globalSearch", "input#main-search", "input#mainSearch", "input#header-search",
      "input#headerSearch", "input#top-search", "input#topSearch" >>

\* comprehensive_selectors['by_class_attribute']
by_class_attribute ==
    << "input.search", "input.searchbox", "input.search-box", "input.search_box",
      "input.searchBar", "input.search-bar", "input.search_bar", "input.searchInput",
      "input.search-input", "input.search_input", "input.searchField", "input.search-field",
      "input.search_field", "input.search-query", "input.search_query", "input.searchQuery",
      "input.site-search", "input.siteSearch", "input.global-search", "input.globalSearch",
      "input.header-search", "input.headerSearch", "input.desktop-searchBar",
      "input.mobile-searchBar", "input.Pke_EE", "input._3704LK", "input.nav-input",
      "input.nav-search-input", "input.form-control", "input.form-input",
      "input.react-autosuggest__input", "input.autosuggest-input",
      "input.autocomplete-input" >>

\* comprehensive_selectors['by_placeholder']
by_placeholder ==
    << "input[placeholder*=\"Search\" i]", "input[placeholder*=\"search\" i]",
      "input[placeholder*=\"Find\" i]", "input[placeholder*=\"find\" i]",
      "input[placeholder*=\"Look for\" i]", "input[placeholder*=\"looking for\" i]",
      "input[placeholder*=\"What are you\" i]", "input[placeholder*=\"Product\" i]",
      "input[placeholder*=\"product\" i]", "input[placeholder*=\"Item\" i]",
      "input[placeholder*=\"item\" i]", "input[placeholder*=\"Brand\" i]",
      "input[placeholder*=\"Enter\" i]", "input[placeholder*=\"Type\" i]",
      "input[placeholder*=\"Query\" i]", "input[placeholder*=\"Keyword\" i]",
      "input[placeholder*=\"Search for products\" i]",
      "input[placeholder*=\"Search products\" i]",
      "input[placeholder*=\"Search for items\" i]",
      "input[placeholder*=\"Find products\" i]",
      "input[placeholder*=\"What are you looking for\" i]",
      "input[placeholder*=\"I'm shopping for\" i]",
      "input[placeholder*=\"Try searching\" i]" >>

\* comprehensive_selectors['by_aria']
by_aria ==
    << "input[aria-label*=\"Search\" i]", "input[aria-label*=\"search\" i]",
      "input[aria-label*=\"Find\" i]", "input[aria-label*=\"Query\" i]",
      "input[aria-label*=\"Product\" i]", "input[role=\"searchbox\"]",
      "input[role=\"search\"]", "[role=\"searchbox\"]", "[role=\"search\"] input" >>

\* comprehensive_selectors['by_title']
by_title ==
    << "input[title*=\"Search\" i]", "input[title*=\"Find\" i]",
      "input[title*=\"Query\" i]", "input[title*=\"Product\" i]" >>

\* comprehensive_selectors['by_data_attributes']
by_data_attributes ==
    << "input[data-search]", "input[data-searchbox]", "input[data-search-input]",
      "input[data-type=\"search\"]", "input[data-role=\"search\"]",
      "input[data-component=\"search\"]", "input[data-testid*=\"search\" i]",
      "input[data-test*=\"search\" i]", "input[data-cy*=\"search\" i]" >>

\* comprehensive_selectors['by_form_action']
by_form_action ==
    << "form[action*=\"search\"] input[type=\"text\"]",
      "form[action*=\"search\"] input[type=\"search\"]", "form[action*=\"/search\"] input",
      "form[action*=\"query\"] input", "form[action*=\"find\"] input",
      "form[class*=\"search\" i] input", "form[id*=\"search\" i] input",
      "form[role=\"search\"] input" >>

\* comprehensive_selectors['by_container']
by_container ==
    << "div[class*=\"search\" i] input", "div[id*=\"search\" i] input",
      "div[role=\"search\"] input", "header input[type=\"text\"]",
      "header input[type=\"search\"]", "nav input[type=\"text\"]",
      "nav input[type=\"search\"]", ".header input", ".navbar input", ".nav-bar input",
      ".top-bar input", ".search-container input", ".search-wrapper input",
      ".search-box input", ".searchbox input", ".search-form input", ".search-area input" >>

\* comprehensive_selectors['by_input_type']
by_input_type ==
    << "input[type=\"search\"]", "input[type=\"text\"]", "input[type=\"tel\"]",
      "input[type=\"email\"]", "input[type=\"url\"]" >>

\* comprehensive_selectors['xpath_selectors']
xpath_selectors ==
    << "//input[contains(@placeholder, 'Search')]",
      "//input[contains(@placeholder, 'search')]",
      "//input[contains(@placeholder, 'Find')]", "//input[contains(@placeholder, 'find')]",
      "//input[contains(@placeholder, 'Product')]",
      "//input[contains(@placeholder, 'product')]",
      "//input[contains(@placeholder, 'What are you')]",
      "//input[contains(@aria-label, 'Search')]",
      "//input[contains(@aria-label, 'search')]", "//input[contains(@aria-label, 'Find')]",
      "//input[contains(@title, 'Search')]", "//input[contains(@title, 'search')]",
      "//input[@name='q']", "//input[@name='query']", "//input[@name='search']",
      "//input[@name='keyword']", "//input[@name='s']",
      "//input[contains(@class, 'search')]", "//input[contains(@class, 'Search')]",
      "//input[contains(@id, 'search')]", "//input[contains(@id, 'Search')]",
      "//input[@type='search']", "//form[contains(@action, 'search')]//input[@type='text']",
      "//form[contains(@action, 'search')]//input[@type='search']",
      "//form[contains(@class, 'search')]//input", "//form[@role='search']//input",
      "//*[@role='searchbox']", "//*[@role='search']//input",
      "//div[contains(@class, 'search')]//input[@type='text']",
      "//div[contains(@class, 'search')]//input[@type='search']",
      "//header//input[@type='text']", "//header//input[@type='search']",
      "//nav//input[@type='text']", "//nav//input[@type='search']",
      "//input[@type='text' and not(@hidden)]", "//input[@type='search' and not(@hidden)]" >>

\* the patterns of _try_search_triggers
trigger_selectors ==
    << "button[class*=\"search\" i]", "button[aria-label*=\"search\" i]",
      "button[title*=\"search\" i]", "a[class*=\"search\" i]",
      "a[aria-label*=\"search\" i]", "div[class*=\"search\" i][role=\"button\"]",
      "span[class*=\"search\" i]", "i[class*=\"search\" i]", "[data-testid*=\"search\" i]",
      ".fa-search", ".icon-search", ".search-icon", "svg[class*=\"search\" i]",
      "svg[aria-label*=\"search\" i]", "button[class*=\"menu\" i]",
      "button[class*=\"hamburger\" i]", "button[aria-label*=\"menu\" i]",
      "[aria-label*=\"navigation\" i]" >>

\* the patterns of _find_search_button_universal
button_selectors ==
    << "button[type=\"submit\"]", "input[type=\"submit\"]",
      "button[aria-label*=\"search\" i]", "button[title*=\"search\" i]",
      "button[class*=\"search\" i]", "button#nav-search-submit-button",
      "form[action*=\"search\"] button[type=\"submit\"]",
      "form[role=\"search\"] button[type=\"submit\"]", "button .fa-search",
      "button .icon-search", "button svg[class*=\"search\" i]" >>

\* the families in the order _find_search_input_universal scans them
families ==
    << [name |-> "name", selectors |-> by_name_attribute],
       [name |-> "id", selectors |-> by_id_attribute],
       [name |-> "class", selectors |-> by_class_attribute],
       [name |-> "placeholder", selectors |-> by_placeholder],
       [name |-> "aria", selectors |-> by_aria],
       [name |-> "title", selectors |-> by_title],
       [name |-> "data", selectors |-> by_data_attributes],
       [name |-> "form", selectors |-> by_form_action],
       [name |-> "container", selectors |-> by_container],
       [name |-> "input_type", selectors |-> by_input_type],
       [name |-> "xpath", selectors |-> xpath_selectors] >>

(* A page answers a query by a list of elements or by an exception.  An      *)
(* element is displayed always ("yes"), never ("no") or once a trigger that   *)
(* reveals the search box has been clicked ("revealed"); raises tells that    *)
(* is_displayed() / is_enabled() raise on it (a stale element).               *)

NoElement ==
    [id |-> "", displayed |-> "no", enabled |-> FALSE, raises |-> FALSE, reveals |-> FALSE]

Element(id, displayed, enabled) ==
    [id |-> id, displayed |-> displayed, enabled |-> enabled, raises |-> FALSE,
     reveals |-> FALSE]

Match(selector, elements) == [selector |-> selector, raises |-> FALSE, elements |-> elements]

\* driver.find_elements(By.CSS_SELECTOR / By.XPATH, selector)
Query(page, selector) ==
    IF \E i \in 1..Len(page.matches) : page.matches[i].selector = selector
    THEN page.matches[CHOOSE i \in 1..Len(page.matches) : page.matches[i].selector = selector]
    ELSE Match(selector, <<>>)

\* element.is_displayed()
is_displayed(element, revealed) ==
    element.displayed = "yes" \/ (element.displayed = "revealed" /\ revealed)

\* for element in elements: if element.is_displayed() and element.is_enabled():
\*     return element          -- NoElement when the loop ends or a check raises
RECURSIVE first_usable(_, _, _)
first_usable(elements, i, revealed) ==
    IF i > Len(elements) THEN NoElement
    ELSE IF elements[i].raises THEN NoElement
    ELSE IF is_displayed(elements[i], revealed) /\ elements[i].enabled THEN elements[i]
    ELSE first_usable(elements, i + 1, revealed)

\* try: elements = driver.find_elements(...); for element in elements: ...
\* except: continue
try_selector(page, selector, revealed) ==
    IF Query(page, selector).raises THEN NoElement
    ELSE first_usable(Query(page, selector).elements, 1, revealed)

\* the loop over the selectors of one family, from selector j on; queried is the
\* list of the queries made so far
RECURSIVE scan_family(_, _, _, _, _)
scan_family(page, family, selectors, j, queried) ==
    IF j > Len(selectors) THEN [queried |-> queried, element |-> NoElement, found_at |-> <<>>]
    ELSE IF try_selector(page, selectors[j], FALSE) # NoElement
    THEN [queried |-> Append(queried, <<family, selectors[j]>>),
          element |-> try_selector(page, selectors[j], FALSE),
          found_at |-> <<family, selectors[j]>>]
    ELSE scan_family(page, family, selectors, j + 1, Append(queried, <<family, selectors[j]>>))

\* for input_selector in ['input[type="search"]', 'input[type="text"]']
scan_revealed_inputs(page, revealed) ==
    IF try_selector(page, "input[type=\"search\"]", revealed) # NoElement
    THEN try_selector(page, "input[type=\"search\"]", revealed)
    ELSE try_selector(page, "input[type=\"text\"]", revealed)

\* a variant that clicks every match of a pattern
trigger_slice_all(elements) == elements

\* elements[:3]
trigger_slice(elements) == SubSeq(elements, 1, IF Len(elements) < 3 THEN Len(elements) ELSE 3)

\* the loop over the first matches of one trigger pattern; st is the state of the
\* page (revealed), the clicks made and the input found
RECURSIVE click_triggers(_, _, _, _, _)
RECURSIVE after_click(_, _, _, _, _)

click_triggers(page, selector, elements, i, st) ==
    IF i > Len(elements) THEN st
    \* is_displayed() raises: except -> continue with the next pattern
    ELSE IF elements[i].raises THEN st
    ELSE IF ~is_displayed(elements[i], st.revealed)
    THEN click_triggers(page, selector, elements, i + 1, st)
    ELSE after_click(page, selector, elements, i,
                     [revealed |-> st.revealed \/ elements[i].reveals,
                      clicks |-> Append(st.clicks, <<selector, elements[i].id>>),
                      element |-> NoElement])

\* the re-scan for an input after a click
after_click(page, selector, elements, i, st) ==
    IF scan_revealed_inputs(page, st.revealed) # NoElement
    THEN [st EXCEPT !.element = scan_revealed_inputs(page, st.revealed)]
    ELSE click_triggers(page, selector, elements, i + 1, st)

\* one pattern of _try_search_triggers
try_trigger(page, selector, st) ==
    IF Query(page, selector).raises THEN st
    ELSE click_triggers(page, selector, trigger_slice(Query(page, selector).elements), 1, st)

\* _find_search_button_universal: find_element gives the first match or raises
RECURSIVE find_search_button(_, _, _)
find_search_button(page, j, revealed) ==
    IF j > Len(button_selectors) THEN NoElement
    ELSE IF Query(page, button_selectors[j]).raises
            \/ Query(page, button_selectors[j]).elements = <<>>
    THEN find_search_button(page, j + 1, revealed)
    ELSE IF Query(page, button_selectors[j]).elements[1].raises
    THEN find_search_button(page, j + 1, revealed)
    ELSE IF is_displayed(Query(page, button_selectors[j]).elements[1], revealed)
    THEN Query(page, button_selectors[j]).elements[1]
    ELSE find_search_button(page, j + 1, revealed)

-----------------------------------------------------------------------------
(* Sites for discover_search_url *)

SearchBox == Element("box", "yes", TRUE)
OtherBox == Element("other", "yes", TRUE)
HiddenBox == Element("hidden", "no", TRUE)
DisabledBox == Element("disabled", "yes", FALSE)
LazyBox == Element("lazy", "revealed", TRUE)
StaleBox == [Element("stale", "yes", TRUE) EXCEPT !.raises = TRUE]
Icon(id) == Element(id, "yes", TRUE)
RevealingIcon == [Element("opener", "yes", TRUE) EXCEPT !.reveals = TRUE]
HiddenIcon == Element("hidden-icon", "no", TRUE)
StaleIcon == [Element("stale-icon", "yes", TRUE) EXCEPT !.raises = TRUE]
SubmitButton == Element("submit", "yes", TRUE)

Site(matches) == [matches |-> matches]

SitePool ==
    { Site(<<>>),
      Site(<<Match("input[name=\"q\"]", <<SearchBox>>)>>),
      Site(<<Match("input[name=\"q\"]", <<SearchBox>>),
             Match("button[type=\"submit\"]", <<SubmitButton>>)>>),
      Site(<<Match("input[name=\"q\"]", <<HiddenBox, DisabledBox>>),
             Match("input#search", <<OtherBox>>),
             Match("input[type=\"text\"]", <<HiddenBox, DisabledBox, OtherBox>>)>>),
      Site(<<Match("input[name=\"query\"]", <<HiddenBox, SearchBox>>),
             Match("input[name=\"search\"]", <<OtherBox>>)>>),
      \* a stale element in front of the search box
      Site(<<Match("input[name=\"q\"]", <<StaleBox, SearchBox>>),
             Match("input[type=\"search\"]", <<OtherBox>>)>>),
      Site(<<Match("input[name=\"q\"]", <<StaleBox, SearchBox>>)>>),
      \* a query that raises
      Site(<<[Match("input[name=\"q\"]", <<>>) EXCEPT !.raises = TRUE],
             Match("//input[contains(@placeholder, 'Search')]", <<SearchBox>>)>>),
      Site(<<Match("input[type=\"search\"]", <<SearchBox>>)>>),
      \* the search box opens on a click
      Site(<<Match("input[type=\"search\"]", <<LazyBox>>),
             Match("button[class*=\"search\" i]", <<RevealingIcon>>)>>),
      Site(<<Match("input[type=\"text\"]", <<HiddenBox, LazyBox>>),
             Match("button[class*=\"search\" i]", <<HiddenIcon, Icon("i1"), Icon("i2"),
                                                    RevealingIcon>>),
             Match(".fa-search", <<Icon("i3"), RevealingIcon>>)>>),
      Site(<<Match("input[type=\"search\"]", <<LazyBox>>),
             Match("a[class*=\"search\" i]", <<StaleIcon, RevealingIcon>>),
             Match("button[class*=\"menu\" i]", <<HiddenIcon, RevealingIcon>>)>>),
      \* icons that open nothing
      Site(<<Match("button[class*=\"search\" i]", <<Icon("i1"), Icon("i2"), Icon("i3"),
                                                    Icon("i4")>>),
             Match("span[class*=\"search\" i]", <<Icon("i5")>>)>>),
      Site(<<Match("input[type=\"search\"]", <<LazyBox>>),
             [Match("button[class*=\"search\" i]", <<>>) EXCEPT !.raises = TRUE],
             Match("button[class*=\"hamburger\" i]", <<Icon("i1"), Icon("i2"), Icon("i3"),
                                                       RevealingIcon>>)>>) }

-----------------------------------------------------------------------------
(* urllib.parse.parse_qs and quote_plus, str() of a list of str, and         *)
(* _parse_url_structure.  Percent-escapes stand for the printable ASCII      *)
(* characters; the dict query_params is the sequence of its items, in        *)
(* insertion order.                                                          *)

\* the characters of code 32 to 126, in order; the grave accent (code 96) cannot
\* be written in a string and is left out of the escapes, a space holds its place
Ascii ==
    " !\"#$%&'()*+,-./0123456789:;<=>?@ABCDEFGHIJKLMNOPQRSTUVWXYZ[\\]^_ abcdefghijklmnopqrstuvwxyz{|}~"

HexDigits == "0123456789ABCDEF"

\* value of a hexadecimal digit, -1 for any other character
HexValue(c) ==
    IF Find(HexDigits, c) > 0 THEN Find(HexDigits, c) - 1
    ELSE IF Find("abcdef", c) > 0 THEN Find("abcdef", c) + 9
    ELSE -1

\* whether s starts with the escape %XX of a printable ASCII character
IsEscape(s) ==
    /\ Len(s) >= 3
    /\ Char(s, 1) = "%"
    /\ HexValue(Char(s, 2)) >= 0
    /\ HexValue(Char(s, 3)) >= 0
    /\ (16 * HexValue(Char(s, 2)) + HexValue(Char(s, 3))) \in (32..126) \ {96}

\* urllib.parse.unquote
RECURSIVE unquote(_)
unquote(s) ==
    IF s = "" THEN ""
    ELSE IF IsEscape(s)
         THEN Char(Ascii, 16 * HexValue(Char(s, 2)) + HexValue(Char(s, 3)) - 31)
                  \o unquote(SubSeq(s, 4, Len(s)))
         ELSE Char(s, 1) \o unquote(Tail(s))

\* str.replace(old, new), old not empty
RECURSIVE Replace(_, _, _)
Replace(s, old, new) ==
    IF Len(s) < Len(old) THEN s
    ELSE IF StartsWith(s, old)
         THEN new \o Replace(SubSeq(s, Len(old) + 1, Len(s)), old, new)
         ELSE Char(s, 1) \o Replace(Tail(s), old, new)

\* str.split(sep), sep one character
RECURSIVE Split(_, _)
Split(s, sep) ==
    IF Find(s, sep) = 0 THEN <<s>>
    ELSE <<Before(s, sep)>> \o Split(After(s, sep), sep)

\* sep.join(parts)
RECURSIVE Join(_, _)
Join(parts, sep) ==
    IF parts = <<>> THEN ""
    ELSE IF Len(parts) = 1 THEN parts[1]
    ELSE parts[1] \o sep \o Join(Tail(parts), sep)

\* parse_qsl keeps a field "name=value" whose value is not blank
\* (keep_blank_values=False, strict_parsing=False)
qs_field_kept(field) == Find(field, "=") > 0 /\ After(field, "=") # ""

\* name and value of a kept field: + stands for a space, then unquote
qs_field(field) ==
    <<unquote(Replace(Before(field, "="), "+", " ")),
      unquote(Replace(After(field, "="), "+", " "))>>

\* parsed_result[name].append(value) / parsed_result[name] = [value]
qs_add(parsed_result, name, value) ==
    IF \E j \in 1..Len(parsed_result) : parsed_result[j].key = name
    THEN [j \in 1..Len(parsed_result) |->
             IF parsed_result[j].key = name
             THEN [key |-> name, values |-> Append(parsed_result[j].values, value)]
             ELSE parsed_result[j]]
    ELSE Append(parsed_result, [key |-> name, values |-> <<value>>])

RECURSIVE qs_collect(_, _, _)
qs_collect(fields, i, parsed_result) ==
    IF i > Len(fields) THEN parsed_result
    ELSE qs_collect(fields, i + 1,
                    qs_add(parsed_result, qs_field(fields[i])[1], qs_field(fields[i])[2]))

\* urllib.parse.parse_qs
parse_qs(qs) == qs_collect(SelectSeq(Split(qs, "&"), qs_field_kept), 1, <<>>)

\* the quote repr() puts around a str
repr_quote(s) == IF Contains(s, "'") /\ ~Contains(s, "\"") THEN "\"" ELSE "'"

\* repr() of a str of printable ASCII characters
py_repr(s) ==
    repr_quote(s)
        \o Replace(Replace(s, "\\", "\\\\"), repr_quote(s), "\\" \o repr_quote(s))
        \o repr_quote(s)

\* str(values) of a list of str
str_of_list(values) ==
    "[" \o Join([i \in 1..Len(values) |-> py_repr(values[i])], ", ") \o "]"

\* for key, values in query_params.items():
\*     if test_query.lower() in str(values).lower(): search_param = key; break
RECURSIVE find_search_param(_, _, _)
find_search_param(query_params, test_query, i) ==
    IF i > Len(query_params) THEN None
    ELSE IF Contains(Lower(str_of_list(query_params[i].values)), Lower(test_query))
         THEN PyStr(query_params[i].key)
         ELSE find_search_param(query_params, test_query, i + 1)

\* other_params = {k: v for k, v in query_params.items() if k != search_param}
other_params(query_params, search_param) ==
    SelectSeq(query_params, LAMBDA item : item.key # search_param)

\* "&".join([f"{k}={v[0]}" for k, v in other_params.items()])
optional_params(others) ==
    Join([i \in 1..Len(others) |-> others[i].key \o "=" \o others[i].values[1]], "&")

\* url_template_full when a search parameter was found
full_template(url_template, others) ==
    IF others # <<>> THEN url_template \o "&" \o optional_params(others)
    ELSE url_template

\* a template that carries the placeholder of the key "example"
url_template_example(base_url, search_param) ==
    IF Truthy(search_param) THEN base_url \o "?" \o search_param.v \o "={your_query}"
    ELSE base_url

\* url_template
url_template_of(base_url, search_param) ==
    IF Truthy(search_param) THEN base_url \o "?" \o search_param.v \o "={query}"
    ELSE base_url

\* the dict returned by _parse_url_structure
url_structure(url, test_query, parsed, base_url, query_params, search_param) ==
    [success |-> TRUE,
     platform |-> parsed.netloc,
     full_url |-> PyStr(url),
     base_url |-> base_url,
     search_parameter |-> search_param,
     url_template |-> url_template_of(base_url, search_param),
     url_template_full |->
         IF Truthy(search_param)
         THEN full_template(url_template_of(base_url, search_param),
                            other_params(query_params, search_param.v))
         ELSE url,
     query_params |-> query_params,
     example |->
         IF Truthy(search_param) THEN base_url \o "?" \o search_param.v \o "={your_query}"
         ELSE base_url,
     test_query |-> test_query]

url_structure_of(url, test_query, parsed, query_params) ==
    url_structure(url, test_query, parsed,
                  parsed.scheme \o "://" \o parsed.netloc \o parsed.path,
                  query_params, find_search_param(query_params, test_query, 1))

url_structure_parsed(url, test_query, parsed) ==
    url_structure_of(url, test_query, parsed, parse_qs(parsed.query))

\* _parse_url_structure
parse_url_structure(url, test_query) ==
    url_structure_parsed(url, test_query, urlparse(url))

\* two hexadecimal digits of a character code
Hex2(n) == Char(HexDigits, (n \div 16) + 1) \o Char(HexDigits, (n % 16) + 1)

\* urllib.parse.quote_plus
RECURSIVE quote_plus(_)
quote_plus(s) ==
    IF s = "" THEN ""
    ELSE (IF IsLetter(Char(s, 1)) \/ IsDigit(Char(s, 1)) \/ Find("_.-~", Char(s, 1)) > 0
          THEN Char(s, 1)
          ELSE IF Char(s, 1) = " " THEN "+"
          ELSE "%" \o Hex2(Find(Ascii, Char(s, 1)) + 31))
         \o quote_plus(Tail(s))

\* ProductExtractionPipeline.replace_placeholder_in_url
replace_placeholder_in_url(url_template, product_name) ==
    IF Contains(url_template, "{query}")
    THEN Replace(url_template, "{query}", quote_plus(product_name))
    ELSE IF Contains(url_template, "{your_query}")
    THEN Replace(url_template, "{your_query}", quote_plus(product_name))
    ELSE IF Contains(url_template, "{q}")
    THEN Replace(url_template, "{q}", quote_plus(product_name))
    ELSE url_template \o (IF Contains(url_template, "?") THEN "&" ELSE "?") \o "q="
             \o quote_plus(product_name)

-----------------------------------------------------------------------------
(* discover_search_url *)

\* values of the argument test_query ("iphone" is its default)
ProbePool == {"iphone", "Red Shoe", "a&b", "5\" kid's"}

NotFoundError == "Search input not found after trying all selector patterns"

NoDiscovery ==
    [keys |-> {}, success |-> FALSE, error |-> "", full_url |-> None, base_url |-> "",
     search_parameter |-> None, url_template |-> "", url_template_full |-> "",
     query_params |-> <<>>, test_query |-> ""]

\* return {"error": ..., "site_url": site_url}
DiscoveryError(e) == [NoDiscovery EXCEPT !.keys = {"error", "site_url"}, !.error = e]

\* a discovery that fails when no search parameter was identified
DiscoveryFailsWithoutParameter(structure) ==
    IF Truthy(structure.search_parameter)
    THEN [NoDiscovery EXCEPT !.keys = {"success"}, !.success = TRUE,
                             !.full_url = structure.full_url,
                             !.search_parameter = structure.search_parameter]
    ELSE [NoDiscovery EXCEPT !.keys = {"error", "site_url"},
                             !.error = "no search parameter",
                             !.full_url = structure.full_url]

\* the result of _parse_url_structure with site_url and site_name added
DiscoveryFound(structure) ==
    [keys |-> {"success", "platform", "full_url", "base_url", "search_parameter",
               "url_template", "url_template_full", "query_params", "example",
               "test_query", "site_url", "site_name"},
     success |-> structure.success,
     error |-> "",
     full_url |-> structure.full_url,
     base_url |-> structure.base_url,
     search_parameter |-> structure.search_parameter,
     url_template |-> structure.url_template,
     url_template_full |-> structure.url_template_full,
     query_params |-> structure.query_params,
     test_query |-> structure.test_query]

\* the argument site_url
SiteUrl == "https://shop.example/"

\* driver.current_url after the search for test_query was submitted: the site URL
\* when nothing was navigated, else a URL of the site; a term sent in the query is
\* encoded as a form field
SearchUrls(test_query) ==
    {SiteUrl,
     SiteUrl \o "search?q=" \o quote_plus(test_query),
     SiteUrl \o "search?q=" \o Lower(quote_plus(test_query)) \o "&page=1&sort=",
     SiteUrl \o "s?ref=nav&k=" \o quote_plus(test_query) \o "+15&ref=top",
     SiteUrl \o "search/" \o quote_plus(test_query),
     SiteUrl \o "find?a=" \o quote_plus(test_query) \o "&b=" \o quote_plus(test_query),
     SiteUrl \o "find?s%26q=" \o quote_plus(test_query) \o "&lang=en",
     SiteUrl \o "find?=" \o quote_plus(test_query),
     SiteUrl \o "list?page=2&view=grid"}

DiInit ==
    /\ di_pc = "start"
    /\ di_query \in ProbePool
    /\ di_page \in SitePool
    /\ di_browser = "none"
    /\ di_driver = FALSE
    /\ di_family = 1
    /\ di_trigger = 1
    /\ di_queried = <<>>
    /\ di_found_at = <<>>
    /\ di_input = NoElement
    /\ di_revealed = FALSE
    /\ di_clicks = <<>>
    /\ di_typed = FALSE
    /\ di_submitted = "no"
    /\ di_result = NoDiscovery

\* no call of discover_search_url is under way
DiIdle ==
    /\ di_pc = "idle"
    /\ di_query = "iphone"
    /\ di_page = Site(<<>>)
    /\ di_browser = "none"
    /\ di_driver = FALSE
    /\ di_family = 1
    /\ di_trigger = 1
    /\ di_queried = <<>>
    /\ di_found_at = <<>>
    /\ di_input = NoElement
    /\ di_revealed = FALSE
    /\ di_clicks = <<>>
    /\ di_typed = FALSE
    /\ di_submitted = "no"
    /\ di_result = NoDiscovery

\* driver = self._setup_fast_driver() returns a driver
DiSetup ==
    /\ di_pc = "start"
    /\ di_browser' = "open"
    /\ di_driver' = TRUE
    /\ di_pc' = "navigate"
    /\ UNCHANGED <<di_query, di_page, di_family, di_trigger, di_queried, di_found_at, di_input,
                   di_revealed, di_clicks, di_typed, di_submitted, di_result>>
    /\ UNCHANGED di_others

\* _setup_fast_driver raises: webdriver.Chrome(...) fails and leaves no browser, or
\* driver.set_page_load_timeout(30) fails on the browser that was started; either
\* way nothing is assigned to driver
DiSetupRaises ==
    /\ di_pc = "start"
    /\ \E started \in BOOLEAN :
          di_browser' = IF started THEN "open" ELSE "none"
    /\ di_result' = DiscoveryError("setup")
    /\ di_pc' = "finally"
    /\ UNCHANGED <<di_query, di_page, di_driver, di_family, di_trigger, di_queried, di_found_at,
                   di_input, di_revealed, di_clicks, di_typed, di_submitted>>
    /\ UNCHANGED di_others

\* driver.get(site_url); WebDriverWait(driver, 10).until(presence of body)
DiNavigate ==
    /\ di_pc = "navigate"
    /\ di_pc' = "settle"
    /\ UNCHANGED <<di_query, di_page, di_browser, di_driver, di_family, di_trigger, di_queried,
                   di_found_at, di_input, di_revealed, di_clicks, di_typed, di_submitted,
                   di_result>>
    /\ UNCHANGED di_others

\* driver.get raises, or the wait for the body times out
DiNavigateRaises ==
    /\ di_pc = "navigate"
    /\ \E e \in {"navigation", "timeout"} : di_result' = DiscoveryError(e)
    /\ di_pc' = "finally"
    /\ UNCHANGED <<di_query, di_page, di_browser, di_driver, di_family, di_trigger, di_queried,
                   di_found_at, di_input, di_revealed, di_clicks, di_typed, di_submitted>>
    /\ UNCHANGED di_others

\* _handle_popups, _wait_for_dynamic_content: each catches what its driver calls raise
DiSettle ==
    /\ di_pc = "settle"
    /\ di_pc' = "find"
    /\ UNCHANGED <<di_query, di_page, di_browser, di_driver, di_family, di_trigger, di_queried,
                   di_found_at, di_input, di_revealed, di_clicks, di_typed, di_submitted,
                   di_result>>
    /\ UNCHANGED di_others

\* _find_search_input_universal: the loop over the selectors of the next family
DiFamily ==
    /\ di_pc = "find"
    /\ \E r \in {scan_family(di_page, families[di_family].name,
                             families[di_family].selectors, 1, di_queried)} :
           /\ di_queried' = r.queried
           /\ di_input' = r.element
           /\ di_found_at' = r.found_at
           /\ IF r.element # NoElement
              THEN di_pc' = "type" /\ UNCHANGED di_family
              ELSE /\ di_family' = di_family + 1
                   /\ di_pc' = IF di_family = Len(families) THEN "trigger" ELSE "find"
    /\ UNCHANGED <<di_query, di_page, di_browser, di_driver, di_trigger, di_revealed, di_clicks,
                   di_typed, di_submitted, di_result>>
    /\ UNCHANGED di_others

\* _try_search_triggers: the next trigger pattern
DiTrigger ==
    /\ di_pc = "trigger"
    /\ \E st \in {try_trigger(di_page, trigger_selectors[di_trigger],
                              [revealed |-> di_revealed, clicks |-> di_clicks,
                               element |-> NoElement])} :
           /\ di_revealed' = st.revealed
           /\ di_clicks' = st.clicks
           /\ di_input' = st.element
           /\ IF st.element # NoElement
              THEN di_pc' = "type" /\ UNCHANGED di_trigger
              ELSE /\ di_trigger' = di_trigger + 1
                   /\ di_pc' = IF di_trigger = Len(trigger_selectors) THEN "not_found"
                               ELSE "trigger"
    /\ UNCHANGED <<di_query, di_page, di_browser, di_driver, di_family, di_queried, di_found_at,
                   di_typed, di_submitted, di_result>>
    /\ UNCHANGED di_others

\* if not search_input: return {"error": "Search input not found ...", ...}
DiNotFound ==
    /\ di_pc = "not_found"
    /\ di_result' = DiscoveryError(NotFoundError)
    /\ di_pc' = "finally"
    /\ UNCHANGED <<di_query, di_page, di_browser, di_driver, di_family, di_trigger, di_queried,
                   di_found_at, di_input, di_revealed, di_clicks, di_typed, di_submitted>>
    /\ UNCHANGED di_others

\* initial_url = driver.current_url; search_input.clear(); search_input.send_keys(...)
DiType ==
    /\ di_pc = "type"
    /\ di_typed' = TRUE
    /\ di_pc' = "submit"
    /\ UNCHANGED <<di_query, di_page, di_browser, di_driver, di_family, di_trigger, di_queried,
                   di_found_at, di_input, di_revealed, di_clicks, di_submitted, di_result>>
    /\ UNCHANGED di_others

\* current_url or clear() raises before anything is typed
DiTypeRaises ==
    /\ di_pc = "type"
    /\ di_result' = DiscoveryError("input")
    /\ di_pc' = "finally"
    /\ UNCHANGED <<di_query, di_page, di_browser, di_driver, di_family, di_trigger, di_queried,
                   di_found_at, di_input, di_revealed, di_clicks, di_typed, di_submitted>>
    /\ UNCHANGED di_others

\* the search button is clicked; without a button, or when the click raises, the
\* RETURN key is sent to the input
DiSubmit ==
    /\ di_pc = "submit"
    /\ \E click_raises \in BOOLEAN :
          di_submitted' = IF find_search_button(di_page, 1, di_revealed) # NoElement
                             /\ ~click_raises
                          THEN "button" ELSE "return"
    /\ di_pc' = "parse"
    /\ UNCHANGED <<di_query, di_page, di_browser, di_driver, di_family, di_trigger, di_queried,
                   di_found_at, di_input, di_revealed, di_clicks, di_typed, di_result>>
    /\ UNCHANGED di_others

\* search_input.send_keys(Keys.RETURN) raises
DiSubmitRaises ==
    /\ di_pc = "submit"
    /\ di_result' = DiscoveryError("submit")
    /\ di_pc' = "finally"
    /\ UNCHANGED <<di_query, di_page, di_browser, di_driver, di_family, di_trigger, di_queried,
                   di_found_at, di_input, di_revealed, di_clicks, di_typed, di_submitted>>
    /\ UNCHANGED di_others

\* the wait for a new URL (a timeout is ignored), then
\* result = self._parse_url_structure(driver.current_url, test_query)
DiParse ==
    /\ di_pc = "parse"
    /\ \E search_url \in SearchUrls(di_query) :
          di_result' = DiscoveryFound(parse_url_structure(search_url, di_query))
    /\ di_pc' = "finally"
    /\ UNCHANGED <<di_query, di_page, di_browser, di_driver, di_family, di_trigger, di_queried,
                   di_found_at, di_input, di_revealed, di_clicks, di_typed, di_submitted>>
    /\ UNCHANGED di_others

\* the wait or driver.current_url raises a WebDriverException
DiParseRaises ==
    /\ di_pc = "parse"
    /\ di_result' = DiscoveryError("driver")
    /\ di_pc' = "finally"
    /\ UNCHANGED <<di_query, di_page, di_browser, di_driver, di_family, di_trigger, di_queried,
                   di_found_at, di_input, di_revealed, di_clicks, di_typed, di_submitted>>
    /\ UNCHANGED di_others

\* finally: if driver: driver.quit()
DiFinally ==
    /\ di_pc = "finally"
    /\ di_browser' = IF di_driver THEN "quit" ELSE di_browser
    /\ di_pc' = "returned"
    /\ UNCHANGED <<di_query, di_page, di_driver, di_family, di_trigger, di_queried, di_found_at,
                   di_input, di_revealed, di_clicks, di_typed, di_submitted, di_result>>
    /\ UNCHANGED di_others

DiNext ==
    \/ DiSetup
    \/ DiSetupRaises
    \/ DiNavigate
    \/ DiNavigateRaises
    \/ DiSettle
    \/ DiFamily
    \/ DiTrigger
    \/ DiNotFound
    \/ DiType
    \/ DiTypeRaises
    \/ DiSubmit
    \/ DiSubmitRaises
    \/ DiParse
    \/ DiParseRaises
    \/ DiFinally

-----------------------------------------------------------------------------
(* Harness for _is_valid_product, _is_product_like_path and _parse_price: one *)
(* call of one of them on an argument of the pool.                            *)

FnUrls ==
    {None, PyStr("https://shop.example/product/1"), PyStr("https://shop.example/deal"),
     PyStr("https://shop.example/login"), PyStr("https://shop.example/")}

FnTitles == {None, PyStr("Red Shoe"), PyStr("X"), PyStr("Contact us"), PyStr("  ")}

FnPrices == {None, PyFloat("0.0"), PyFloat("10.0")}

FnRawPrices == {None, PyStr("$10")}

FnProducts ==
    {[EmptyProduct EXCEPT !.product_url = u, !.title = t, !.price = p, !.raw_price = r] :
        u \in FnUrls, t \in FnTitles, p \in FnPrices, r \in FnRawPrices}

FnHrefs ==
    {"/product/123", "/login", "/search?q=x", "/brand-new-sneaker-2024.html",
     "/products/cart-organizer", "https://shop.example/item/search-light", "/", "/about",
     "/collections/help-desk", "/a/b/c", "/cart", "/search?pid=7", "/new-arrivals-today",
     "/x", "/index.html", "/deals#login", "/Terms.HTML"}

FnRaws ==
    {None, PyStr(""), PyStr("₹1,299.00"), PyStr("$49.99"), PyStr("Free"), PyStr("EUR 12"),
     PyStr("Rs. 1,299"), PyStr("1.2.3"), PyStr("USD"), PyStr("  12 "), PyStr("Rs 500"),
     PyStr("£0.00"), PyStr("from 5 to 9"), PyStr("call us")}

\* the depth of the deepest element the harness examines
MaxAncestors == 7

\* the tags of an element and of its ancestors up to the root: the element and
\* its plain ancestors, depth of them in all, then the ancestor with the tag
\* section (the element itself when depth is 0), then body and html
TagChain(depth, section) ==
    [i \in 1..depth |-> "div"] \o <<section, "body", "html">>

FnTagChains ==
    { TagChain(depth, section) : depth \in 0..MaxAncestors,
                                 section \in blacklisted_sections \cup {"section", "MAIN", "Nav"} }
    \cup { <<"div", "body", "nav", "html">>, <<"li">>, <<"html">> }

FnArg(product, text) == [product |-> product, text |-> text, tags |-> <<>>]

FnNoOut == [called |-> FALSE, bool |-> FALSE, price |-> None, currency |-> None]

FnInit ==
    /\ fn_name \in {"is_valid_product", "is_product_like_path", "parse_price",
                    "is_within_blacklisted_section"}
    /\ fn_arg \in CASE fn_name = "is_valid_product" ->
                       {FnArg(p, None) : p \in FnProducts}
                    [] fn_name = "is_within_blacklisted_section" ->
                       {[FnArg(EmptyProduct, None) EXCEPT !.tags = tags] : tags \in FnTagChains}
                    [] fn_name = "is_product_like_path" ->
                       {FnArg(EmptyProduct, PyStr(h)) : h \in FnHrefs}
                    [] OTHER ->
                       {FnArg(EmptyProduct, raw) : raw \in FnRaws}
    /\ fn_out = FnNoOut

\* no call of the harness is under way
FnIdle ==
    /\ fn_name = "idle"
    /\ fn_arg = FnArg(EmptyProduct, None)
    /\ fn_out = FnNoOut

FnIsValidProduct ==
    /\ fn_name = "is_valid_product"
    /\ ~fn_out.called
    /\ fn_out' = [FnNoOut EXCEPT !.called = TRUE, !.bool = is_valid_product(fn_arg.product)]
    /\ UNCHANGED <<fn_name, fn_arg>>
    /\ UNCHANGED fn_others

FnIsProductLikePath ==
    /\ fn_name = "is_product_like_path"
    /\ ~fn_out.called
    /\ fn_out' = [FnNoOut EXCEPT !.called = TRUE, !.bool = is_product_like_path(fn_arg.text.v)]
    /\ UNCHANGED <<fn_name, fn_arg>>
    /\ UNCHANGED fn_others

FnParsePrice ==
    /\ fn_name = "parse_price"
    /\ ~fn_out.called
    /\ fn_out' = [FnNoOut EXCEPT !.called = TRUE,
                                 !.price = parse_price(fn_arg.text)[1],
                                 !.currency = parse_price(fn_arg.text)[2]]
    /\ UNCHANGED <<fn_name, fn_arg>>
    /\ UNCHANGED fn_others

FnIsWithinBlacklistedSection ==
    /\ fn_name = "is_within_blacklisted_section"
    /\ ~fn_out.called
    /\ fn_out' = [FnNoOut EXCEPT !.called = TRUE,
                                 !.bool = is_within_blacklisted_section(fn_arg.tags)]
    /\ UNCHANGED <<fn_name, fn_arg>>
    /\ UNCHANGED fn_others

FnNext ==
    \/ FnIsWithinBlacklistedSection
    \/ FnIsValidProduct
    \/ FnIsProductLikePath
    \/ FnParsePrice

-----------------------------------------------------------------------------
(* _progressive_scroll_and_load.  Each execute_script call returns or raises; *)
(* a measurement returns a height of 0..MaxHeight.  sc_log holds one entry    *)
(* for the first measurement and one for each iteration of the loop.          *)

max_scroll_attempts == 4

\* an entry of sc_log: whether the scroll and the measurement returned, and the
\* height measured
Measured(height) == [scrolled |-> TRUE, measured |-> TRUE, height |-> height]
ScrollRaised == [scrolled |-> FALSE, measured |-> FALSE, height |-> 0]
MeasureRaised == [scrolled |-> TRUE, measured |-> FALSE, height |-> 0]

ScInit ==
    /\ sc_pc = "start"
    /\ sc_attempt = 0
    /\ sc_last_height = 0
    /\ sc_log = <<>>

\* no call of _progressive_scroll_and_load is under way
ScIdle ==
    /\ sc_pc = "idle"
    /\ sc_attempt = 0
    /\ sc_last_height = 0
    /\ sc_log = <<>>

\* last_height = driver.execute_script("return document.body.scrollHeight"),
\* 0 when the call raises
ScFirstHeight ==
    /\ sc_pc = "start"
    /\ \E outcome \in {MeasureRaised} \cup {Measured(h) : h \in 0..MaxHeight} :
          /\ sc_last_height' = outcome.height
          /\ sc_log' = <<outcome>>
    /\ sc_pc' = "loop"
    /\ UNCHANGED sc_attempt
    /\ UNCHANGED sc_others

\* a loop that goes on whatever was measured, until the attempts are used up
loop_until_budget(attempt, outcome, last_height) == attempt < max_scroll_attempts

\* whether the for loop runs another iteration after iteration number `attempt`
\* ended with `outcome`: not after a break, not when range() is used up
loop_goes_on(attempt, outcome, last_height) ==
    /\ outcome.scrolled
    /\ outcome.measured
    /\ ~(outcome.height <= last_height)
    /\ attempt < max_scroll_attempts

\* one iteration of the loop: scroll to the bottom, _click_load_more and
\* _dismiss_known_popups (both catch what they raise), measure, compare
ScIteration ==
    /\ sc_pc = "loop"
    /\ sc_attempt < max_scroll_attempts
    /\ \E outcome \in {ScrollRaised, MeasureRaised} \cup {Measured(h) : h \in 0..MaxHeight} :
          /\ sc_log' = Append(sc_log, outcome)
          /\ sc_last_height' = IF outcome.measured /\ outcome.height > sc_last_height
                               THEN outcome.height ELSE sc_last_height
          /\ sc_pc' = IF loop_goes_on(sc_attempt + 1, outcome, sc_last_height)
                      THEN "loop" ELSE "done"
    /\ sc_attempt' = sc_attempt + 1
    /\ UNCHANGED sc_others

ScNext == ScFirstHeight \/ ScIteration

-----------------------------------------------------------------------------
(* discover_multiple_sites.  The calling thread submits one call of          *)
(* discover_search_url per name of sites_dict to a pool of max_workers       *)
(* threads, then takes the futures as they complete.  A call of              *)
(* discover_search_url is given by how it ends.                              *)

\* the most names of a sites dict and the largest pool
MaxSites == 3
MaxWorkers == 2

SiteNames == <<"amazon", "flipkart", "myntra", "ajio", "nykaa", "meesho">>

\* the URL under each name
SiteUrlOf(name) == "https://" \o name \o ".example"

\* how a call of discover_search_url ends: with the dict of a discovery, with
\* the dict of a failure ({"success": False, "error": ...}), or with an exception
\* that leaves it (driver.quit() raising in its finally clause)
DiscoveryEnds == {"found", "error", "raised"}

NoFuture == [state |-> "none", ends |-> "none"]

\* what discover_search_url(url, test_query) gives when it returns
DiscoveryOf(url, ends) == [site_url |-> url, has_error |-> ends # "found", exception |-> FALSE]

\* results[site_name] = {"error": str(e)}
ExceptionEntry == [site_url |-> "", has_error |-> TRUE, exception |-> TRUE]

\* sites_dict: the names, in insertion order
SiteDicts == { SubSeq(SiteNames, 1, n) : n \in 0..MaxSites }

MsInit ==
    /\ ms_pc = "submit"
    /\ ms_sites \in SiteDicts
    /\ ms_max_workers \in 1..MaxWorkers
    /\ ms_future = [i \in 1..Len(ms_sites) |-> NoFuture]
    /\ ms_session = [i \in 1..Len(ms_sites) |-> 0]
    /\ ms_opened = 0
    /\ ms_results = <<>>

\* no call of discover_multiple_sites is under way
MsIdle ==
    /\ ms_pc = "idle"
    /\ ms_sites = <<>>
    /\ ms_max_workers = 1
    /\ ms_future = <<>>
    /\ ms_session = <<>>
    /\ ms_opened = 0
    /\ ms_results = <<>>

Futures(state) == { i \in 1..Len(ms_future) : ms_future[i].state = state }

\* executor.submit(self.discover_search_url, url, test_query), for the next name
MsSubmit ==
    /\ ms_pc = "submit"
    /\ \E i \in 1..Len(ms_sites) :
          /\ ms_future[i].state = "none"
          /\ \A j \in 1..(i - 1) : ms_future[j].state # "none"
          /\ ms_future' = [ms_future EXCEPT ![i].state = "queued"]
    /\ UNCHANGED <<ms_pc, ms_sites, ms_max_workers, ms_session, ms_opened, ms_results>>
    /\ UNCHANGED ms_others

\* the dict comprehension is over: for future in as_completed(future_to_site)
MsSubmitted ==
    /\ ms_pc = "submit"
    /\ Futures("none") = {}
    /\ ms_pc' = "collect"
    /\ UNCHANGED <<ms_sites, ms_max_workers, ms_future, ms_session, ms_opened, ms_results>>
    /\ UNCHANGED ms_others

\* a thread of the pool is free for the oldest queued call
worker_is_free(running, max_workers) == running < max_workers

\* a thread of the pool takes the oldest queued call; discover_search_url starts
\* its own browser with self._setup_driver()
MsStart ==
    /\ \E i \in Futures("queued") :
          /\ \A j \in Futures("queued") : i <= j
          /\ worker_is_free(Cardinality(Futures("running")), ms_max_workers)
          /\ ms_future' = [ms_future EXCEPT ![i].state = "running"]
          /\ ms_opened' = ms_opened + 1
          /\ ms_session' = [ms_session EXCEPT ![i] = ms_opened + 1]
    /\ UNCHANGED <<ms_pc, ms_sites, ms_max_workers, ms_results>>
    /\ UNCHANGED ms_others

\* a running call of discover_search_url ends
MsFinish ==
    /\ \E i \in Futures("running") : \E ends \in DiscoveryEnds :
          ms_future' = [ms_future EXCEPT ![i] = [state |-> "done", ends |-> ends]]
    /\ UNCHANGED <<ms_pc, ms_sites, ms_max_workers, ms_session, ms_opened, ms_results>>
    /\ UNCHANGED ms_others

\* a variant of the loop that ends with the first future taken
as_completed_first(taken, futures) == taken # {}

\* as_completed has yielded every future of future_to_site
as_completed_exhausted(taken, futures) == taken = futures

\* site_name = future_to_site[future]
future_to_site(i) == ms_sites[i]

\* the body of the loop for one completed future: result = future.result();
\* results[site_name] = result, or {"error": str(e)} when the call raised
MsCollect ==
    /\ ms_pc = "collect"
    /\ ~as_completed_exhausted(DOMAIN ms_results, {future_to_site(i) : i \in 1..Len(ms_sites)})
    /\ \E i \in Futures("done") :
          /\ future_to_site(i) \notin DOMAIN ms_results
          /\ ms_results' =
                [name \in DOMAIN ms_results \cup {future_to_site(i)} |->
                    IF name # future_to_site(i) THEN ms_results[name]
                    ELSE IF ms_future[i].ends = "raised" THEN ExceptionEntry
                    ELSE DiscoveryOf(SiteUrlOf(ms_sites[i]), ms_future[i].ends)]
    /\ UNCHANGED <<ms_pc, ms_sites, ms_max_workers, ms_future, ms_session, ms_opened>>
    /\ UNCHANGED ms_others

\* the loop is over; leaving the with block waits for the pool (shutdown(wait=True));
\* return results
MsReturn ==
    /\ ms_pc = "collect"
    /\ as_completed_exhausted(DOMAIN ms_results, {future_to_site(i) : i \in 1..Len(ms_sites)})
    /\ Futures("running") = {}
    /\ ms_pc' = "returned"
    /\ UNCHANGED <<ms_sites, ms_max_workers, ms_future, ms_session, ms_opened, ms_results>>
    /\ UNCHANGED ms_others

MsNext ==
    \/ MsSubmit
    \/ MsSubmitted
    \/ MsStart
    \/ MsFinish
    \/ MsCollect
    \/ MsReturn

-----------------------------------------------------------------------------
(* CategorySearchPipeline.run_continuous.  The table categories is given by   *)
(* the number of products of each category and by the order of the           *)
(* latest_updated timestamps: a timestamp is kept as its rank among the      *)
(* timestamps of the table, 1 for the oldest, and NULL as 0.  A timestamp    *)
(* written is datetime.now(), later than all those of the table.             *)

\* the most categories of the table, the most products of a category, and the
\* product index beyond which the loop is not followed
MaxCategories == 2
MaxProductCount == 1
MaxIndex == 2

\* max_skip_threshold = 5
max_skip_threshold == 5

Categories == DOMAIN cp_products

NoIteration == [category |-> 0, outcome |-> "none"]

\* get_oldest_category: the rows sorted with NULLs first, then by timestamp; the
\* first row of the sorted list.  Rows without a timestamp stay in the order the
\* store returned them, which the query does not fix
oldest_categories(updated) ==
    IF \E c \in DOMAIN updated : updated[c] = 0
    THEN { c \in DOMAIN updated : updated[c] = 0 }
    ELSE { c \in DOMAIN updated : \A d \in DOMAIN updated : updated[c] <= updated[d] }

\* update_category_timestamp: latest_updated = datetime.now().isoformat(), the
\* newest timestamp of the table; the ranks of the later rows close up
update_category_timestamp(updated, c) ==
    [d \in DOMAIN updated |->
        IF d = c THEN Cardinality({ e \in DOMAIN updated : e # c /\ updated[e] # 0 }) + 1
        ELSE IF updated[c] # 0 /\ updated[d] > updated[c] THEN updated[d] - 1
        ELSE updated[d]]

\* the timestamps after a call of update_category_timestamp, which returns False
\* and changes nothing when the update does not reach the store
timestamp_after(updated, c, stored) ==
    IF stored THEN update_category_timestamp(updated, c) ELSE updated

\* get_nth_product: len(response.data) >= product_index
has_nth_product(products, c, product_index) == products[c] >= product_index

CpInit ==
    /\ cp_products \in UNION { [1..n -> 0..MaxProductCount] : n \in 1..MaxCategories }
    /\ cp_updated = [c \in DOMAIN cp_products |-> 0]
    /\ cp_product_index = 1
    /\ cp_skipped = <<>>
    /\ cp_seen = {}
    /\ cp_parity = 0
    /\ cp_last = NoIteration

\* the category pipeline does not run
CpIdle ==
    /\ cp_products = <<>>
    /\ cp_updated = <<>>
    /\ cp_product_index = 1
    /\ cp_skipped = <<>>
    /\ cp_seen = {}
    /\ cp_parity = 0
    /\ cp_last = NoIteration

\* an iteration in which get_oldest_category returns None (the query raised):
\* time.sleep(30); continue
CpNoCategory ==
    /\ Categories # {}
    /\ cp_parity' = 1 - cp_parity
    /\ cp_last' = [category |-> 0, outcome |-> "no category"]
    /\ UNCHANGED <<cp_products, cp_updated, cp_product_index, cp_skipped, cp_seen>>
    /\ UNCHANGED cp_others

\* an iteration in which process_category returns True: the category has the
\* product, sites and templates were found; its step 6 updates the timestamp,
\* and the update may not reach the store
CpProcessed ==
    /\ \E c \in oldest_categories(cp_updated) : \E stored \in BOOLEAN :
          /\ has_nth_product(cp_products, c, cp_product_index)
          /\ cp_updated' = timestamp_after(cp_updated, c, stored)
          /\ cp_seen' = cp_seen \cup {c}
          /\ cp_last' = [category |-> c, outcome |-> "processed"]
    /\ cp_skipped' = <<>>
    /\ cp_parity' = 1 - cp_parity
    /\ UNCHANGED <<cp_products, cp_product_index>>
    /\ UNCHANGED cp_others

\* why process_category returns False: the category has no product at the index
\* ("no product"), or it has one and no site, no domain URL or no template was
\* found, or the product query raised ("other")
skip_reasons(products, c, product_index) ==
    IF has_nth_product(products, c, product_index) THEN {"other"}
    ELSE {"no product", "other"}

\* if categories_without_nth_product >= max_skip_threshold
threshold_reached(skipped) == Len(skipped) >= max_skip_threshold

\* an iteration in which process_category returns False: the counter goes up,
\* the timestamp is updated, and at the threshold the index moves on
CpSkipped ==
    /\ \E c \in oldest_categories(cp_updated) : \E stored \in BOOLEAN :
       \E reason \in skip_reasons(cp_products, c, cp_product_index) :
          /\ threshold_reached(Append(cp_skipped, reason)) => cp_product_index < MaxIndex
          /\ cp_updated' = timestamp_after(cp_updated, c, stored)
          /\ cp_last' = [category |-> c, outcome |-> reason]
          /\ IF threshold_reached(Append(cp_skipped, reason))
             THEN /\ cp_product_index' = cp_product_index + 1
                  /\ cp_skipped' = <<>>
                  /\ cp_seen' = {}
             ELSE /\ cp_skipped' = Append(cp_skipped, reason)
                  /\ UNCHANGED <<cp_product_index, cp_seen>>
    /\ cp_parity' = 1 - cp_parity
    /\ UNCHANGED cp_products
    /\ UNCHANGED cp_others

\* an iteration in which process_category raises (the site search or a template
\* row lacks a key): except Exception: time.sleep(10)
CpRaised ==
    /\ \E c \in oldest_categories(cp_updated) :
          cp_last' = [category |-> c, outcome |-> "raised"]
    /\ cp_parity' = 1 - cp_parity
    /\ UNCHANGED <<cp_products, cp_updated, cp_product_index, cp_skipped, cp_seen>>
    /\ UNCHANGED cp_others

CpNext ==
    \/ CpNoCategory
    \/ CpProcessed
    \/ CpSkipped
    \/ CpRaised

-----------------------------------------------------------------------------
(* ProductExtractionPipeline.  A cycle of run_continuous processes every     *)
(* product; process_product goes through the templates of the product's     *)
(* category.  An iteration of that loop is one step.                         *)

\* the products of the table and the templates of a category
MaxPipelineProducts == 3
MaxTemplates == 1

Pairs == (1..MaxPipelineProducts) \X (1..MaxTemplates)

NoAttempt == [pair |-> <<0, 0>>, had_row |-> FALSE, was_extracted |-> FALSE,
              outcome |-> "none"]

\* how extract_products ends: success, success False, or an exception
ExtractionEnds == {"success", "failed", "raised"}

\* whether a query of a store in this state is answered
store_answers(store) == IF store = "ok" THEN {TRUE} ELSE {TRUE, FALSE}

\* a variant of the check that never finds the row
is_url_never_extracted(rows, pair, answered) == FALSE

\* is_url_already_extracted: a row with the product_id and template_id exists;
\* False when the query raises
is_url_already_extracted(rows, pair, answered) == answered /\ pair \in rows

\* save_extracted_url: upsert on (product_id, template_id); nothing is written
\* when the upsert raises
save_extracted_url(rows, pair, answered) == IF answered THEN rows \cup {pair} ELSE rows

\* the pair the loops come to after <<product, template>>; after the last
\* template of the last product the next cycle begins
next_pair(product, template) ==
    IF template < MaxTemplates THEN <<product, template + 1>>
    ELSE IF product < MaxPipelineProducts THEN <<product + 1, 1>>
    ELSE <<1, 1>>

PpInit ==
    /\ pp_store \in {"ok", "failing"}
    /\ pp_rows = {}
    /\ pp_extracted = {}
    /\ pp_product = 1
    /\ pp_template = 1
    /\ pp_last = NoAttempt

\* the product pipeline does not run
PpIdle ==
    /\ pp_store = "none"
    /\ pp_rows = {}
    /\ pp_extracted = {}
    /\ pp_product = 0
    /\ pp_template = 0
    /\ pp_last = NoAttempt

\* an iteration that finds the pair extracted: continue
PpSkip ==
    /\ pp_product # 0
    /\ \E answered \in store_answers(pp_store) :
          is_url_already_extracted(pp_rows, <<pp_product, pp_template>>, answered)
    /\ pp_last' = [pair |-> <<pp_product, pp_template>>, had_row |-> TRUE,
                   was_extracted |-> <<pp_product, pp_template>> \in pp_extracted,
                   outcome |-> "skipped"]
    /\ pp_product' = next_pair(pp_product, pp_template)[1]
    /\ pp_template' = next_pair(pp_product, pp_template)[2]
    /\ UNCHANGED <<pp_store, pp_rows, pp_extracted>>
    /\ UNCHANGED pp_others

\* an iteration that passes the URL of the pair to extract_products and then
\* calls save_extracted_url, however the extraction ended
PpExtract ==
    /\ pp_product # 0
    /\ \E answered \in store_answers(pp_store) : \E ends \in ExtractionEnds :
       \E saved \in store_answers(pp_store) :
          /\ ~is_url_already_extracted(pp_rows, <<pp_product, pp_template>>, answered)
          /\ pp_extracted' = pp_extracted \cup {<<pp_product, pp_template>>}
          /\ pp_rows' = save_extracted_url(pp_rows, <<pp_product, pp_template>>, saved)
          /\ pp_last' = [pair |-> <<pp_product, pp_template>>,
                         had_row |-> <<pp_product, pp_template>> \in pp_rows,
                         was_extracted |-> <<pp_product, pp_template>> \in pp_extracted,
                         outcome |-> ends]
    /\ pp_product' = next_pair(pp_product, pp_template)[1]
    /\ pp_template' = next_pair(pp_product, pp_template)[2]
    /\ UNCHANGED pp_store
    /\ UNCHANGED pp_others

PpNext ==
    \/ PpSkip
    \/ PpExtract

-----------------------------------------------------------------------------
(* PipelineManager.  start() runs the two pipelines, the health-check        *)
(* server and the keep-alive heartbeat in four threads; stop() clears        *)
(* self.running.  A pipeline thread is inside run_continuous ("running") or  *)
(* in the except clause of its own loop ("handler"); the health thread is    *)
(* about to bind its server ("binding"), in its request loop ("serving") or  *)
(* in its except clause ("handler"); a thread that has returned is "dead".   *)

PipelineThreads == {"category", "product"}
ManagedThreads == PipelineThreads \cup {"health"}
ManagerThreads == ManagedThreads \cup {"keepalive"}

\* the state in which threading.Thread(target=...).start() puts a thread
started(t) ==
    IF t \in PipelineThreads THEN "running"
    ELSE IF t = "health" THEN "binding"
    ELSE "sleeping"

\* __init__: the threads are None, self.running = False
PmInit ==
    /\ pm_running = FALSE
    /\ pm_server = FALSE
    /\ pm_thread = [t \in ManagerThreads |-> "none"]
    /\ pm_stop = "idle"

\* no manager was built
PmIdle ==
    /\ pm_running = FALSE
    /\ pm_server = FALSE
    /\ pm_thread = <<>>
    /\ pm_stop = "none"

\* start(): self.running = True, then the four threads are started
PmStart ==
    /\ pm_stop = "idle"
    /\ ~pm_running
    /\ \A t \in ManagerThreads : pm_thread[t] = "none"
    /\ pm_running' = TRUE
    /\ pm_thread' = [t \in ManagerThreads |-> started(t)]
    /\ UNCHANGED <<pm_server, pm_stop>>
    /\ UNCHANGED pm_others

\* the test of  while self.running  that a thread comes back to
loop_test(running, goes_on) == IF running THEN goes_on ELSE "dead"

\* run_continuous raises out of its own loop (an exception raised before the
\* loop or inside one of its except clauses):  except Exception  of
\* run_category_pipeline / run_product_pipeline
PmPipelineRaises ==
    /\ \E t \in PipelineThreads :
          /\ pm_thread[t] = "running"
          /\ pm_thread' = [pm_thread EXCEPT ![t] = "handler"]
    /\ UNCHANGED <<pm_running, pm_server, pm_stop>>
    /\ UNCHANGED pm_others

\* the except clause is over (if self.running: time.sleep(10)) and the loop test
\* either calls run_continuous again or ends the thread
PmPipelineRetry ==
    /\ \E t \in PipelineThreads :
          /\ pm_thread[t] = "handler"
          /\ pm_thread' = [pm_thread EXCEPT ![t] = loop_test(pm_running, "running")]
    /\ UNCHANGED <<pm_running, pm_server, pm_stop>>
    /\ UNCHANGED pm_others

\* the health thread at its loop test: HTTPServer((host, port), handler) binds,
\* or raises (the port is taken), or the thread ends
PmHealthBind ==
    /\ pm_thread["health"] = "binding"
    /\ IF pm_running
       THEN \E bound \in BOOLEAN :
               /\ pm_server' = (pm_server \/ bound)
               /\ pm_thread' = [pm_thread EXCEPT !["health"] =
                                    IF bound THEN "serving" ELSE "handler"]
       ELSE /\ pm_thread' = [pm_thread EXCEPT !["health"] = "dead"]
            /\ UNCHANGED pm_server
    /\ UNCHANGED <<pm_running, pm_stop>>
    /\ UNCHANGED pm_others

\* the except clause of the health thread is over (if self.running: time.sleep(5))
PmHealthRetry ==
    /\ pm_thread["health"] = "handler"
    /\ pm_thread' = [pm_thread EXCEPT !["health"] = "binding"]
    /\ UNCHANGED <<pm_running, pm_server, pm_stop>>
    /\ UNCHANGED pm_others

\* the request loop  while self.running: handle_request()  sees the flag cleared;
\* so does the loop around it
PmHealthExit ==
    /\ pm_thread["health"] = "serving"
    /\ ~pm_running
    /\ pm_thread' = [pm_thread EXCEPT !["health"] = "dead"]
    /\ UNCHANGED <<pm_running, pm_server, pm_stop>>
    /\ UNCHANGED pm_others

\* a thread is restarted by the heartbeat:  if not alive and self.running
restarted(thread, running, t) ==
    IF t \in ManagedThreads /\ thread[t] = "dead" /\ running THEN started(t) ELSE thread[t]

\* keep_alive_heartbeat after time.sleep(10): the ping, the three is_alive checks
\* and restarts when self.running, then the loop test
PmKeepAlive ==
    /\ pm_thread["keepalive"] = "sleeping"
    /\ pm_thread' = [t \in ManagerThreads |->
                        IF t = "keepalive" THEN loop_test(pm_running, "sleeping")
                        ELSE restarted(pm_thread, pm_running, t)]
    /\ UNCHANGED <<pm_running, pm_server, pm_stop>>
    /\ UNCHANGED pm_others

\* where stop() stands after  self.running = False : if self.health_server, inside
\* self.health_server.shutdown(), which waits for serve_forever to end; the
\* health thread serves with handle_request and never calls serve_forever, so
\* the wait has no end
after_flag_cleared(server) == IF server THEN "shutdown" ELSE "sleep"

\* stop() is called while the pipelines run
PmStop ==
    /\ pm_stop = "idle"
    /\ pm_running
    /\ pm_running' = FALSE
    /\ pm_stop' = after_flag_cleared(pm_server)
    /\ UNCHANGED <<pm_server, pm_thread>>
    /\ UNCHANGED pm_others

\* time.sleep(2) is over and stop() returns
PmStopReturn ==
    /\ pm_stop = "sleep"
    /\ pm_stop' = "returned"
    /\ UNCHANGED <<pm_running, pm_server, pm_thread>>
    /\ UNCHANGED pm_others

\* the steps a thread takes by itself
PmThreadSteps ==
    \/ PmPipelineRetry
    \/ PmHealthBind
    \/ PmHealthRetry
    \/ PmHealthExit
    \/ PmKeepAlive
    \/ PmStopReturn

PmNext ==
    \/ PmStart
    \/ PmPipelineRaises
    \/ PmStop
    \/ PmThreadSteps

-----------------------------------------------------------------------------
(* Properties of extract_products and discover_search_url *)

\* C1: every call of extract_products and of discover_search_url has released its
\* browser session when it returns, whatever the exit path: no browser that was
\* started is still open after the call.
C1_SessionReleased ==
    /\ ex_pc = "returned" => ex_browser # "open"
    /\ di_pc = "returned" => di_browser # "open"

\* C2: the strategies are invoked in the order DOM scan, JSON-LD, microdata, inline
\* JSON scripts, global heuristic scan, anchor+image; a strategy is invoked only
\* after every earlier one returned an empty list; the chain ends at the first
\* non-empty list or after the sixth strategy; what is returned is the deduplicated,
\* truncated list of the last strategy invoked and of no other.
C2_FixedOrderFirstNonEmpty ==
    /\ Len(ex_tried) <= 6
    /\ [i \in 1..Len(ex_tried) |-> ex_tried[i].name]
           = SubSeq(<<"dom", "jsonld", "microdata", "inline", "heuristics", "links">>,
                    1, Len(ex_tried))
    /\ \A i \in 1..Len(ex_tried) : \A j \in 1..(i - 1) :
           ex_tried[j].n = 0 /\ ~ex_tried[j].raised
    /\ ex_pc \in {"no_results", "dedupe"} =>
           /\ Len(ex_tried) >= 1
           /\ Len(ex_tried) = 6 \/ ex_tried[Len(ex_tried)].n > 0
           /\ Len(ex_products) = ex_tried[Len(ex_tried)].n
    /\ (ex_pc = "returned" /\ "error" \notin ex_result.keys) =>
           /\ Len(ex_tried) = 6 \/ ex_tried[Len(ex_tried)].n > 0
           /\ ex_result.products =
                  deduped_products(StrategyResult(ex_page, ex_tried[Len(ex_tried)].name,
                                                  ex_max_items), ex_max_items)

\* the fourth strategy is the first to find products, and they are returned
C2_Witness ==
    /\ ex_pc = "returned"
    /\ ex_result.success
    /\ Len(ex_tried) = 4
    /\ ex_tried[4].n > 0
    /\ Len(ex_result.products) > 0

\* C3: on a page without DOM cards whose only product data is one JSON-LD block with
\* one object typed Product (@type a string or a list, with or without url), a call
\* that meets no driver failure returns a successful result whose products contain
\* that product.
C3_JsonLdProductReturned ==
    (/\ ex_pc = "returned"
     /\ "error" \notin ex_result.keys
     /\ ex_page.dom = <<>>
     /\ ex_page.microdata = <<>>
     /\ ex_page.inline = <<>>
     /\ ex_page.containers = <<>>
     /\ ex_page.anchors = <<>>
     /\ Len(ex_page.ld) = 1
     /\ Len(ex_page.ld[1]) = 1
     /\ ex_page.ld[1][1].attype \in {PyStr("Product"), PyList("['Product']")})
    => /\ ex_result.success
       /\ \E i \in 1..Len(ex_result.products) :
              ex_result.products[i]["title"] = ex_page.ld[1][1].name

\* C4: when each of the six strategies returned an empty list, the call returns
\* success = true, products = [], num_products = 0 and no error, whether or not the
\* body text holds a no-results phrase.
C4_EmptyPageIsSuccess ==
    (/\ ex_pc = "returned"
     /\ Len(ex_tried) = 6
     /\ \A i \in 1..6 : ex_tried[i].n = 0 /\ ~ex_tried[i].raised)
    => /\ ex_result.success
       /\ ex_result.products = <<>>
       /\ ex_result.num_products = 0
       /\ "error" \notin ex_result.keys
       /\ {"success", "products", "num_products"} \subseteq ex_result.keys

\* six empty strategies on a page that says "No results found"
C4_Witness ==
    /\ ex_pc = "returned"
    /\ Len(ex_tried) = 6
    /\ \A i \in 1..6 : ex_tried[i].n = 0 /\ ~ex_tried[i].raised
    /\ page_indicates_no_results(ex_page.body)
    /\ ex_result.success

\* C8: every record of the products list a call returns has a non-null product_url
\* and satisfies _is_valid_product, whichever strategy found it and after the merge
\* of duplicates.
C8_ReturnedRecordsValid ==
    ex_pc = "returned" =>
        \A i \in 1..Len(ex_result.products) :
            /\ Truthy(ex_result.products[i]["product_url"])
            /\ is_valid_product(ex_result.products[i])

\* a returned record that was merged from two records of the same URL
C8_Witness ==
    /\ ex_pc = "returned"
    /\ Len(ex_result.products) = 1
    /\ ex_result.products[1]["title"] = PyStr("Red Shoe")
    /\ ex_result.products[1]["brand"] = PyStr("Acme")
    /\ ex_tried[Len(ex_tried)].n = 2

\* C9: the input the family scan returns is the first displayed-and-enabled element
\* of the earliest <<family, selector>>, in the order name, id, class, placeholder,
\* ARIA, title, data-*, form, container, input type, XPath and the listed order of
\* each family, that has a displayed-and-enabled match, and nothing is queried after
\* that selector.
C9_EarliestUsableMatch ==
    di_found_at # <<>> =>
        \E f \in 1..Len(families) : \E j \in 1..Len(families[f].selectors) :
            /\ di_found_at = <<families[f].name, families[f].selectors[j]>>
            /\ <<"name", "id", "class", "placeholder", "aria", "title", "data", "form",
                 "container", "input_type", "xpath">>[f] = families[f].name
            /\ \E k \in 1..Len(Query(di_page, di_found_at[2]).elements) :
                   /\ di_input = Query(di_page, di_found_at[2]).elements[k]
                   /\ di_input.displayed = "yes" /\ di_input.enabled
                   /\ \A m \in 1..(k - 1) :
                          ~(/\ Query(di_page, di_found_at[2]).elements[m].displayed = "yes"
                            /\ Query(di_page, di_found_at[2]).elements[m].enabled)
            /\ \A f2 \in 1..f : \A j2 \in 1..Len(families[f2].selectors) :
                   (f2 < f \/ j2 < j) =>
                       \A k \in 1..Len(Query(di_page, families[f2].selectors[j2]).elements) :
                           ~(/\ Query(di_page, families[f2].selectors[j2]).elements[k].displayed
                                    = "yes"
                             /\ Query(di_page, families[f2].selectors[j2]).elements[k].enabled)
            /\ di_queried[Len(di_queried)] = di_found_at
            /\ \A i \in 1..(Len(di_queried) - 1) : di_queried[i] # di_found_at

\* C10: the trigger fallback runs only after the scan of all eleven families queried
\* every selector and returned no input; it clicks at most three matches of each
\* trigger pattern; the 'Search input not found' error is returned only when the
\* fallback tried every pattern and found no input, and then nothing was typed or
\* submitted.
C10_TriggerFallback ==
    /\ (di_clicks # <<>> \/ di_trigger > 1 \/ di_pc \in {"trigger", "not_found"}) =>
           /\ di_family = Len(families) + 1
           /\ Len(families) = 11
           /\ di_found_at = <<>>
           /\ \A f \in 1..Len(families) : \A j \in 1..Len(families[f].selectors) :
                  \E i \in 1..Len(di_queried) :
                      di_queried[i] = <<families[f].name, families[f].selectors[j]>>
    /\ \A s \in 1..Len(trigger_selectors) :
           Cardinality({i \in 1..Len(di_clicks) : di_clicks[i][1] = trigger_selectors[s]}) <= 3
    /\ di_result.error = NotFoundError =>
           /\ di_input = NoElement
           /\ di_found_at = <<>>
           /\ di_trigger = Len(trigger_selectors) + 1
           /\ ~di_typed
           /\ di_submitted = "no"

\* a pattern with four displayed matches was clicked three times, and the call
\* returned the error
C10_Witness ==
    /\ di_pc = "returned"
    /\ di_result.error = NotFoundError
    /\ Len(Query(di_page, "button[class*=\"search\" i]").elements) = 4
    /\ Cardinality({i \in 1..Len(di_clicks) :
                        di_clicks[i][1] = "button[class*=\"search\" i]"}) = 3

-----------------------------------------------------------------------------
(* Properties of the URL structure returned by discover_search_url *)

\* a value of the list contains the probe term, case-insensitively
ValueContains(values, test_query) ==
    \E i \in 1..Len(values) : Contains(Lower(values[i]), Lower(test_query))

\* the first key of the query, in its order, one of whose values contains the
\* probe term; None when there is none
FirstMatchingKey(query_params, test_query) ==
    IF \E i \in 1..Len(query_params) : ValueContains(query_params[i].values, test_query)
    THEN PyStr(query_params[CHOOSE i \in 1..Len(query_params) :
                   /\ ValueContains(query_params[i].values, test_query)
                   /\ \A j \in 1..(i - 1) :
                          ~ValueContains(query_params[j].values, test_query)].key)
    ELSE None

\* C11: the search parameter of a returned structure is the first query key, in
\* the order of the URL, one of whose values contains the probe term as a
\* case-insensitive substring, and it is null exactly when no key has such a value
C11_FirstMatchingKeySelected ==
    di_result.success =>
        di_result.search_parameter = FirstMatchingKey(di_result.query_params, di_query)

\* number of places of s where sub occurs
Occurrences(s, sub) ==
    Cardinality({i \in 1..(Len(s) - Len(sub) + 1) : SubSeq(s, i, i + Len(sub) - 1) = sub})

\* C12 as stated: the url_template of every non-error result of discovery contains
\* exactly one occurrence of {query}
C12_OnePlaceholderAlways ==
    di_result.success => Occurrences(di_result.url_template, "{query}") = 1

\* C12: the url_template of a non-error result contains exactly one occurrence of
\* {query} when a non-empty search parameter was identified; when none was (the
\* search parameter is null or the empty key) it is the base URL, with no placeholder
C12_OnePlaceholderWhenIdentified ==
    di_result.success =>
        IF Truthy(di_result.search_parameter)
        THEN Occurrences(di_result.url_template, "{query}") = 1
        ELSE /\ di_result.url_template = di_result.base_url
             /\ Occurrences(di_result.url_template, "{query}") = 0

C12_Witness ==
    /\ di_pc = "returned"
    /\ di_result.success
    /\ di_result.search_parameter = PyStr("q")
    /\ di_result.url_template = "https://shop.example/search?q={query}"

\* the values of the key in a parsed query, <<>> when the key is absent
ParamValues(query_params, key) ==
    IF \E i \in 1..Len(query_params) : query_params[i].key = key
    THEN query_params[CHOOSE i \in 1..Len(query_params) : query_params[i].key = key].values
    ELSE <<>>

\* C13: when a search parameter was identified, putting the probe term into the
\* url_template as replace_placeholder_in_url does gives a URL whose parsed query
\* has the probe term as the one value of the search parameter
C13_TemplateRoundTrip ==
    (di_result.success /\ Truthy(di_result.search_parameter)) =>
        ParamValues(parse_qs(urlparse(replace_placeholder_in_url(di_result.url_template,
                                                                 di_query)).query),
                    di_result.search_parameter.v) = <<di_query>>

\* every name=value field of a query string as a <<name, value>> pair, blank
\* values included
QueryFields(qs) ==
    {qs_field(Split(qs, "&")[i]) :
        i \in {j \in 1..Len(Split(qs, "&")) : Find(Split(qs, "&")[j], "=") > 0}}

\* the part of a URL before its query and fragment
BasePath(url) == Before(Before(url, "#"), "?")

\* C14: when a search parameter was identified, url_template_full with the probe
\* term in place of the placeholder has the base path of the probed URL and the
\* same query keys and values
C14_FullTemplateReproducesNavigation ==
    (di_result.success /\ Truthy(di_result.search_parameter)) =>
        /\ BasePath(replace_placeholder_in_url(di_result.url_template_full, di_query))
               = BasePath(di_result.full_url.v)
        /\ QueryFields(urlparse(replace_placeholder_in_url(di_result.url_template_full,
                                                           di_query)).query)
               = QueryFields(urlparse(di_result.full_url.v).query)

\* no value of the query of the resulting URL contains the probe term
NoParamContains(query_params, test_query) ==
    \A i \in 1..Len(query_params) : ~ValueContains(query_params[i].values, test_query)

-----------------------------------------------------------------------------
(* Properties of the validators and normalizers *)

\* the title of a candidate as _is_valid_product reads it: cleaned when there is one
CleanTitle(product) ==
    IF product.title = None THEN "" ELSE StrOf(clean_text(product.title))

\* validity as specified; a field is present when it is not None
ValidAsSpecified(product) ==
    /\ Truthy(product.product_url)
    /\ ~is_blacklisted_link(product.product_url.v)
    /\ \/ is_product_like_path(product.product_url.v)
       \/ (product.price # None /\ product.title # None)
    /\ product.title # None =>
           /\ Len(CleanTitle(product)) >= 2
           /\ ~looks_like_phone_or_nav(CleanTitle(product))
    /\ product.title # None \/ product.price # None \/ product.raw_price # None

\* C16: _is_valid_product returns true exactly for the candidates with a
\* non-blacklisted product_url, a product-like URL or both price and title, a title
\* (when present) of 2 characters or more that is no navigation or phone text, and
\* a title or a price signal; a price of 0 is a present price
C16_ValidIffSpecified ==
    (fn_name = "is_valid_product" /\ fn_out.called) =>
        (fn_out.bool <=> ValidAsSpecified(fn_arg.product))

\* C17: _is_product_like_path classifies no URL that contains a negative substring
\* as product-like, and answers true, false, false, true for /product/123, /login,
\* /search?q=x and /brand-new-sneaker-2024.html
C17_NegativeSubstringRejects ==
    (fn_name = "is_product_like_path" /\ fn_out.called) =>
        /\ (\E neg \in negative_keywords : Contains(Lower(fn_arg.text.v), neg)) => ~fn_out.bool
        /\ fn_arg.text.v \in {"/product/123", "/brand-new-sneaker-2024.html"} => fn_out.bool
        /\ fn_arg.text.v \in {"/login", "/search?q=x"} => ~fn_out.bool

\* the raw text has a digit
HasDigit(raw) == raw # None /\ \E i \in 1..Len(raw.v) : IsDigit(Char(raw.v, i))

\* C18: _parse_price returns a price for every raw text that has a digit and null
\* only for a text without one, and gives (1299.0, INR), (49.99, USD), (null, null),
\* (12.0, EUR) and (1299.0, INR) for the texts of the table and for 'Rs. 1,299'
C18_FirstNumericTokenParsed ==
    (fn_name = "parse_price" /\ fn_out.called) =>
        /\ HasDigit(fn_arg.text) <=> fn_out.price # None
        /\ fn_arg.text = PyStr("₹1,299.00") =>
               fn_out.price = PyFloat("1299.0") /\ fn_out.currency = PyStr("INR")
        /\ fn_arg.text = PyStr("$49.99") =>
               fn_out.price = PyFloat("49.99") /\ fn_out.currency = PyStr("USD")
        /\ fn_arg.text = PyStr("Free") => fn_out.price = None /\ fn_out.currency = None
        /\ fn_arg.text = PyStr("EUR 12") =>
               fn_out.price = PyFloat("12.0") /\ fn_out.currency = PyStr("EUR")
        /\ fn_arg.text = PyStr("Rs. 1,299") =>
               fn_out.price = PyFloat("1299.0") /\ fn_out.currency = PyStr("INR")

-----------------------------------------------------------------------------
(* Properties of the settle loop and of a failed navigation *)

\* an iteration of the loop was followed by another one only if its scroll and
\* its measurement returned and the height measured was greater than the one before
ScrollSafety ==
    /\ sc_attempt <= max_scroll_attempts
    /\ sc_pc \in {"loop", "done"} => Len(sc_log) = sc_attempt + 1
    /\ \A i \in 2..(Len(sc_log) - 1) :
           /\ sc_log[i].scrolled
           /\ sc_log[i].measured
           /\ sc_log[i].height > sc_log[i - 1].height
    /\ (sc_pc = "loop" /\ Len(sc_log) > 1) =>
           /\ sc_attempt < max_scroll_attempts
           /\ sc_log[Len(sc_log)].scrolled
           /\ sc_log[Len(sc_log)].measured
           /\ sc_log[Len(sc_log)].height > sc_log[Len(sc_log) - 1].height

\* C19: _progressive_scroll_and_load runs at most max_scroll_attempts iterations,
\* runs no iteration after one whose script call failed or whose height was not
\* greater than the height before, and always comes to its end
C19_ScrollLoopTerminates == []ScrollSafety /\ <>(sc_pc = "done")

C19_Witness ==
    /\ sc_pc = "done"
    /\ sc_attempt = 2
    /\ sc_log[2].height > sc_log[1].height
    /\ sc_log[3].measured
    /\ sc_log[3].height = sc_log[2].height

\* C20: when driver.get or the wait for the body raised, the call is at its end
\* with success false and the error text, no strategy was run and nothing was saved
C20_NavigationFailureIsTerminal ==
    ex_result.error \in {"navigation", "timeout"} =>
        /\ ex_pc \in {"finally", "returned"}
        /\ ~ex_result.success
        /\ {"error", "page_url"} \subseteq ex_result.keys
        /\ ex_result.products = <<>>
        /\ ex_tried = <<>>
        /\ ex_saved = <<>>

C20_Witness ==
    /\ ex_pc = "returned"
    /\ ex_result.error = "timeout"
    /\ ex_browser = "quit"

-----------------------------------------------------------------------------
(* Properties of settling, of the candidate scans and of the returned list *)

\* C21: when a step of settling the page raised (popup dismissal, scrolling, a
\* load-more click, the height measurement, the wait for a card selector), the
\* call does not fail for it: it stands at the first extraction strategy or has
\* run strategies, and no result carries the error of a settling step
C21_SettlingFailureIsNotFatal ==
    ex_settle =>
        /\ ex_pc = "strategy" \/ ex_tried # <<>>
        /\ ex_tried # <<>> => ex_tried[1].name = "dom"
        /\ ex_result.error \notin SettleSteps

C21_Witness ==
    /\ ex_settle
    /\ ex_pc = "returned"
    /\ ex_result.success
    /\ Len(ex_result.products) > 0

\* the candidates of a scan, each as the input of a scan that sees it alone
SingleCandidates(page, name) ==
    CASE name = "dom" -> { <<page.dom[i]>> : i \in 1..Len(page.dom) }
      [] name = "heuristics" ->
            UNION { { << [page.containers[c] EXCEPT !.cards = <<page.containers[c].cards[j]>>] >>
                      : j \in 1..Len(page.containers[c].cards) }
                    : c \in 1..Len(page.containers) }
      [] name = "links" -> { <<page.anchors[i]>> : i \in 1..Len(page.anchors) }
      [] OTHER -> {}

ScanInputName(name) ==
    CASE name = "dom" -> 1 [] name = "heuristics" -> 5 [] name = "links" -> 6 [] OTHER -> 0

\* what the scan accepts of a candidate that it sees alone
AcceptedAlone(name, single) ==
    StrategyResult(WithInput(EmptyPage, ScanInputName(name), single), name, 1)

\* C22: after the DOM scan, the global heuristic scan or the anchor scan returned
\* fewer than max_items products, every candidate that the scan accepts when it
\* sees it alone is among the products, whatever the other candidates raised
C22_OtherCandidatesStillAccepted ==
    (/\ ex_pc \in {"strategy", "no_results"}
     /\ ex_tried # <<>>
     /\ ~ex_tried[Len(ex_tried)].raised
     /\ Len(ex_products) < ex_max_items) =>
        \A single \in SingleCandidates(ex_page, ex_tried[Len(ex_tried)].name) :
            \A i \in 1..Len(AcceptedAlone(ex_tried[Len(ex_tried)].name, single)) :
                \E j \in 1..Len(ex_products) :
                    ex_products[j] = AcceptedAlone(ex_tried[Len(ex_tried)].name, single)[i]

\* C24: a call that returned a products list returned at most max_items
\* products, no two of them with the same product_url, and num_products is the
\* length of the list
C24_ReturnedListBounded ==
    (ex_pc = "returned" /\ "products" \in ex_result.keys) =>
        /\ Len(ex_result.products) <= ex_max_items
        /\ \A i, j \in 1..Len(ex_result.products) :
               i # j => ex_result.products[i]["product_url"] #
                        ex_result.products[j]["product_url"]
        /\ ex_result.num_products = Len(ex_result.products)

\* a strategy found two records of one URL and the call returned them as one
C24_Witness ==
    /\ ex_pc = "returned"
    /\ ex_result.success
    /\ Len(ex_result.products) >= 1
    /\ ex_tried[Len(ex_tried)].n > Len(ex_result.products)

\* C25: an element with a header, nav, footer, aside or form among its nearest 6
\* ancestors, and no body or html nearer than it, is reported as blacklisted
C25_SixAncestorsExamined ==
    (fn_name = "is_within_blacklisted_section" /\ fn_out.called) =>
        \A k \in 1..AncestorWalk :
            (/\ k + 1 <= Len(fn_arg.tags)
             /\ Lower(fn_arg.tags[k + 1]) \in blacklisted_sections
             /\ \A j \in 1..(k - 1) : Lower(fn_arg.tags[j + 1]) \notin {"body", "html"})
                => fn_out.bool

-----------------------------------------------------------------------------
(* Properties of discover_multiple_sites *)

\* C23: when discover_multiple_sites has returned, every call it submitted has
\* ended, the mapping has exactly the names of the input as keys, the entry of a
\* name is what the discovery of that name's URL gave, an entry carries an error
\* exactly when its own call ended in one, and no two calls shared a browser session
C23_OneEntryPerSite ==
    ms_pc = "returned" =>
        /\ \A i \in 1..Len(ms_sites) : ms_future[i].state = "done"
        /\ DOMAIN ms_results = { ms_sites[i] : i \in 1..Len(ms_sites) }
        /\ \A i \in 1..Len(ms_sites) :
              /\ ms_results[ms_sites[i]].has_error <=> ms_future[i].ends # "found"
              /\ ms_future[i].ends # "raised" =>
                    ms_results[ms_sites[i]] = DiscoveryOf(SiteUrlOf(ms_sites[i]), ms_future[i].ends)
              /\ ms_session[i] # 0
              /\ \A j \in 1..Len(ms_sites) : i # j => ms_session[i] # ms_session[j]

\* three sites on a pool of two threads, one call failed and one raised
C23_Witness ==
    /\ ms_pc = "returned"
    /\ Len(ms_sites) = MaxSites
    /\ ms_max_workers < Len(ms_sites)
    /\ \E i, j, k \in 1..Len(ms_sites) :
          /\ ms_future[i].ends = "error"
          /\ ms_future[j].ends = "raised"
          /\ ms_future[k].ends = "found"
          /\ ~ms_results[ms_sites[k]].has_error

-----------------------------------------------------------------------------
(* Properties of CategorySearchPipeline.run_continuous *)

\* C26: the product index never decreases and moves on by exactly 1, with the
\* skip counter back at 0, only when the 5 last consecutive iterations found that
\* their category has no product at the index; a skip for another reason (no
\* site, no template) does not take part in moving the index on; a processed
\* category resets the skip counter
C26_IndexAdvancesOnlyWithoutProduct ==
    [][/\ cp_product_index' >= cp_product_index
       /\ cp_product_index' # cp_product_index =>
             /\ cp_product_index' = cp_product_index + 1
             /\ cp_skipped' = <<>>
             /\ Len(cp_skipped) = max_skip_threshold - 1
             /\ \A i \in 1..Len(cp_skipped) : cp_skipped[i] = "no product"
             /\ cp_last'.outcome = "no product"
       /\ cp_last'.outcome = "processed" => cp_skipped' = <<>>]_vars

\* C27: once every category has been processed with product index n, the loop
\* eventually comes to product index n + 1
C27_NextCycleReached ==
    \A n \in 1..(MaxIndex - 1) :
        (cp_product_index = n /\ cp_seen = Categories) ~> (cp_product_index = n + 1)

\* C28: with two or more categories, no category is selected by two consecutive
\* iterations, and every category is selected infinitely often
C28_NoCategoryStarves ==
    /\ [][(/\ Cardinality(Categories) >= 2
           /\ cp_parity' # cp_parity
           /\ cp_last.category # 0)
          => cp_last'.category # cp_last.category]_vars
    /\ \A c \in 1..MaxCategories :
          []<>(Cardinality(Categories) < 2 \/ c \notin Categories \/ cp_last.category = c)

-----------------------------------------------------------------------------
(* Properties of ProductExtractionPipeline *)

\* the pair of the last iteration was passed to the extractor
Attempted == pp_last.outcome \in ExtractionEnds

-----------------------------------------------------------------------------
(* Properties of PipelineManager *)

\* C30: once stop() was called while the pipelines run, stop() returns and the
\* category thread, the product thread and the health-check thread have ended;
\* and a thread that has ended after stop() is not started again
C30_StopEndsAllThreads ==
    /\ (pm_stop \in {"shutdown", "sleep"}) ~>
           (pm_stop = "returned" /\ \A t \in ManagedThreads : pm_thread[t] = "dead")
    /\ [][\A t \in ManagedThreads :
               (pm_stop \in {"shutdown", "sleep", "returned"} /\ pm_thread[t] = "dead")
                   => (pm_thread'[t] = "dead")]_vars

-----------------------------------------------------------------------------
(* Specifications *)

DdNext ==
    \/ DdAppend
    \/ DdCall
    \/ DdCallAgain

\* calls of _dedupe_by_url
InitDedupe == DdInit /\ ExIdle /\ DiIdle /\ FnIdle /\ ScIdle /\ MsIdle /\ CpIdle /\ PpIdle /\ PmIdle

SpecDedupe == InitDedupe /\ [][DdNext]_vars

\* calls of the validators and normalizers
InitFn == DdIdle /\ ExIdle /\ DiIdle /\ FnInit /\ ScIdle /\ MsIdle /\ CpIdle /\ PpIdle /\ PmIdle

SpecFn == InitFn /\ [][FnNext]_vars

\* one call of _progressive_scroll_and_load; an iteration that can run does run
InitScroll == DdIdle /\ ExIdle /\ DiIdle /\ FnIdle /\ ScInit /\ MsIdle /\ CpIdle /\ PpIdle /\ PmIdle

SpecScroll == InitScroll /\ [][ScNext]_vars /\ WF_vars(ScNext)

InitSites == DdIdle /\ ExIdle /\ DiIdle /\ FnIdle /\ ScIdle /\ MsInit /\ CpIdle /\ PpIdle /\ PmIdle
SpecSites == InitSites /\ [][MsNext]_vars

\* the loop of run_continuous goes on as long as its thread runs
InitCategories == DdIdle /\ ExIdle /\ DiIdle /\ FnIdle /\ ScIdle /\ MsIdle /\ CpInit /\ PpIdle /\ PmIdle
SpecCategories == InitCategories /\ [][CpNext]_vars /\ WF_vars(CpNext)

InitProducts == DdIdle /\ ExIdle /\ DiIdle /\ FnIdle /\ ScIdle /\ MsIdle /\ CpIdle /\ PpInit /\ PmIdle
SpecProducts == InitProducts /\ [][PpNext]_vars

\* every thread that can take a step of its own eventually takes one
InitManager == DdIdle /\ ExIdle /\ DiIdle /\ FnIdle /\ ScIdle /\ MsIdle /\ CpIdle /\ PpIdle /\ PmInit
SpecManager == InitManager /\ [][PmNext]_vars /\ WF_vars(PmThreadSteps)

\* one call of extract_products or one call of discover_search_url
Init == DdIdle /\ FnIdle /\ ScIdle /\ MsIdle /\ CpIdle /\ PpIdle /\ PmIdle /\ ((ExInit /\ DiIdle) \/ (ExIdle /\ DiInit))

Next ==
    \/ ExNext
    \/ DiNext

Spec == Init /\ [][Next]_vars

====
